---- MODULE Spec2Model ----
(***************************************************************************)
(* Model of the ziffers tree evaluator and of the root sequence runtime    *)
(* (src/ziffers/classes/{items,sequences,root}.py, src/ziffers/scale.py).  *)
(*                                                                         *)
(* Representation                                                          *)
(*   - a Python dict is a function with a set of strings as domain;        *)
(*   - an attribute that may be None is <<>> (None) or <<v>> (a value);    *)
(*   - a duration is a number of ticks, 1920 ticks to the whole note, so   *)
(*     0.25 is 480 and beat = duration * 4 stays an integer;               *)
(*   - Pitch objects live in the store obj; a Pitch node of the tree and a *)
(*     realized event are both a reference [kind |-> "Pitch", id |-> i]    *)
(*     into that store, so that two list entries can alias one object;     *)
(*   - the pseudo-random source is an oracle: a sequence of numbers chosen *)
(*     by the action that starts an evaluation pass and consumed by it.    *)
(***************************************************************************)
EXTENDS Integers, Sequences, FiniteSets, TLC

----------------------------------------------------------------------------
(* Bounds of the model *)

MaxCycle == 2        \* get(index) is called for the cycles 0 .. MaxCycle
MaxOffset == 1       \* and the positions 0 .. MaxOffset of each of them
MaxTake == 3         \* take(num) is called with 0 .. MaxTake
MaxPasses == 3       \* evaluation passes per root (init included)
RandMax == 1         \* the random nodes of the trees are (0,RandMax)
MaxOct == 2          \* octaves of events and contexts are -MaxOct .. MaxOct
MaxPc == 9           \* pitch classes handed to note_from_pc are -MaxPc .. MaxPc
MaxFold == 2         \* and are shifted by -MaxFold .. MaxFold scale lengths
MaxLength == 8       \* euclidian_rhythm is called with 0 .. MaxLength pulses and steps
MaxRot == 9          \* and the rotations -MaxRot .. MaxRot
MaxCollect == 4      \* collect(num, keys) is called with 1 .. MaxCollect
MaxInversions == 2   \* chords are inverted by -MaxInversions .. MaxInversions
MaxAscending == 8    \* z[0], z[1], ... is read up to z[MaxAscending]

----------------------------------------------------------------------------
(* Optional values and dicts *)

None == <<>>
Some(v) == <<v>>

Empty == [k \in {} |-> 0]

\* Python: a | b  (b wins)
Merge(a, b) == [k \in (DOMAIN a) \cup (DOMAIN b) |-> IF k \in DOMAIN b THEN b[k] ELSE a[k]]

\* Python: d[k] = v
Put(d, k, v) == [x \in (DOMAIN d) \cup {k} |-> IF x = k THEN v ELSE d[x]]

\* Python: d.get(k, False) for an integer entry; False and 0 are both falsy
GetInt(d, k) == IF k \in DOMAIN d THEN d[k] ELSE 0

Abs(n) == IF n < 0 THEN -n ELSE n

RECURSIVE SumSeq(_)
SumSeq(s) == IF s = <<>> THEN 0 ELSE Head(s) + SumSeq(Tail(s))

----------------------------------------------------------------------------
(* Defaults *)

DUR_W == 1920        \* "w": 1.0
DUR_Q == 480         \* "q": 0.25
DUR_H == 960         \* "h": 0.5
DUR_E == 240         \* "e": 0.125

IONIAN == <<2, 2, 1, 2, 2, 2, 1>>

DEFAULT_OPTIONS ==
    [k \in {"octave", "duration", "key", "scale"} |->
        CASE k = "octave" -> 0
          [] k = "duration" -> DUR_Q
          [] k = "key" -> 60
          [] k = "scale" -> IONIAN]

----------------------------------------------------------------------------
(* scale.py: note_from_pc, for an integer root and an integer scale *)

\* note_from_pc that leaves the modifier out
note_from_pc_unmodified(root, pitch_class, intervals, octave, modifier) ==
    LET scale_length == Len(intervals)
        fold == pitch_class >= scale_length \/ pitch_class < 0
        octave1 == IF fold THEN octave + (pitch_class \div scale_length) ELSE octave
        pc1 == IF fold THEN pitch_class % scale_length ELSE pitch_class
    IN  <<root + SumSeq(SubSeq(intervals, 1, pc1)) + (octave1 * SumSeq(intervals)), None>>

\* note_from_pc with a division that rounds towards zero
note_from_pc_truncating(root, pitch_class, intervals, octave, modifier) ==
    LET scale_length == Len(intervals)
        fold == pitch_class >= scale_length \/ pitch_class < 0
        octave1 == IF ~fold THEN octave
                   ELSE IF pitch_class < 0
                        THEN octave - (Abs(pitch_class) \div scale_length)
                        ELSE octave + (pitch_class \div scale_length)
        pc1 == IF fold THEN pitch_class % scale_length ELSE pitch_class
    IN  <<root + SumSeq(SubSeq(intervals, 1, pc1)) + (octave1 * SumSeq(intervals))
               + modifier, None>>

note_from_pc(root, pitch_class, intervals, octave, modifier) ==
    LET scale_length == Len(intervals)
        fold == pitch_class >= scale_length \/ pitch_class < 0
        octave1 == IF fold THEN octave + (pitch_class \div scale_length) ELSE octave
        pc1 == IF ~fold THEN pitch_class
               ELSE IF pitch_class < 0
                    THEN scale_length - (Abs(pitch_class) % scale_length)
                    ELSE pitch_class % scale_length
        pc2 == IF fold /\ pc1 = scale_length THEN 0 ELSE pc1
        note == root + SumSeq(SubSeq(intervals, 1, pc2))
                     + (octave1 * SumSeq(intervals)) + modifier
    IN  <<note, None>>

----------------------------------------------------------------------------
(* common.py: Euclidean rhythms *)

\* a Python slice bound: negative bounds count from the end, and bounds
\* beyond the list are clipped
slice_bound(i, n) ==
    IF i < 0 THEN (IF i + n < 0 THEN 0 ELSE i + n) ELSE (IF i > n THEN n ELSE i)

\* arr[start:] and arr[:stop]
slice_from(arr, start) == SubSeq(arr, slice_bound(start, Len(arr)) + 1, Len(arr))

slice_to(arr, stop) == SubSeq(arr, 1, slice_bound(stop, Len(arr)))

\* a rotation that takes the head up to idx instead of up to -idx
rotation_mirrored(arr, idx) == slice_from(arr, 0 - idx) \o slice_to(arr, idx)

\* rotation(arr, idx): arr[-idx:] + arr[:-idx]
rotation(arr, idx) == slice_from(arr, 0 - idx) \o slice_to(arr, 0 - idx)

\* _starts_descent(arr, index), index counted from 0
starts_descent(arr, index) ==
    arr[index + 1] > arr[((index + 1) % Len(arr)) + 1]

\* [pulses * t % length for t in range(-1, length - 1)]
res_list(pulses, length) == [i \in 1 .. length |-> (pulses * (i - 2)) % length]

\* [_starts_descent(res_list, index) for index in range(length)]
bool_list(res) == [i \in 1 .. Len(res) |-> starts_descent(res, i - 1)]

\* euclidian_rhythm(pulses, length, rot)
euclidian_rhythm(pulses, length, rot) ==
    IF pulses >= length THEN <<TRUE>>
    ELSE rotation(bool_list(res_list(pulses, length)), rot)

----------------------------------------------------------------------------
(* items.py: Pitch objects *)

NewPitch(pc, lo) ==
    [pitch_class |-> pc, octave |-> None, modifier |-> None, note |-> None,
     pitch_bend |-> None, key |-> None, scale |-> None,
     duration |-> None, beat |-> None, local_options |-> lo]

\* update_options that adds the local octave to the octave the event has
\* from an earlier pass
update_options_accumulating(p, options) ==
    LET lo == p.local_options
        merged == Merge(lo, options)
        local_value == GetInt(lo, "octave")
        oct_change == GetInt(lo, "octave_change")
        octave == IF "octave" \notin DOMAIN merged THEN p.octave
                  ELSE IF oct_change # 0 THEN Some(oct_change)
                  ELSE IF local_value # 0
                       THEN IF p.octave = None THEN Some(merged["octave"] + local_value)
                            ELSE Some(p.octave[1] + local_value)
                  ELSE IF p.octave = None THEN Some(merged["octave"])
                  ELSE p.octave
        RefAttr(key, cur) == IF key \in DOMAIN merged /\ cur = None THEN Some(merged[key]) ELSE cur
    IN  [p EXCEPT !.octave = octave, !.modifier = RefAttr("modifier", p.modifier),
                  !.key = RefAttr("key", p.key), !.scale = RefAttr("scale", p.scale),
                  !.duration = RefAttr("duration", p.duration),
                  !.beat = IF "duration" \in DOMAIN merged /\ p.duration = None
                           THEN Some(merged["duration"] * 4) ELSE p.beat]

\* Meta.update_options
update_options(p, options) ==
    LET lo == p.local_options
        merged == Merge(lo, options)
        local_value == GetInt(lo, "octave")
        oct_change == GetInt(lo, "octave_change")
        octave == IF "octave" \notin DOMAIN merged THEN p.octave
                  ELSE IF oct_change # 0 THEN Some(oct_change)
                  ELSE IF local_value # 0 THEN Some(merged["octave"] + local_value)
                  ELSE IF p.octave = None THEN Some(merged["octave"])
                  ELSE p.octave
        IntAttr(key, cur) ==
            IF key \in DOMAIN merged /\ cur = None
            THEN IF GetInt(lo, key) # 0 THEN Some(lo[key]) ELSE Some(merged[key])
            ELSE cur
        RefAttr(key, cur) ==
            IF key \in DOMAIN merged /\ cur = None THEN Some(merged[key]) ELSE cur
        duration == IntAttr("duration", p.duration)
    IN  [p EXCEPT !.octave = octave,
                  !.modifier = IntAttr("modifier", p.modifier),
                  !.key = RefAttr("key", p.key),
                  !.scale = RefAttr("scale", p.scale),
                  !.duration = duration,
                  !.beat = IF "duration" \in DOMAIN merged /\ p.duration = None
                           THEN Some(duration[1] * 4) ELSE p.beat]

\* Pitch.update_note
update_note(p, force) ==
    LET resolve == p.key # None /\ p.scale # None /\ (p.note = None \/ force)
        res == note_from_pc(p.key[1], p.pitch_class, p.scale[1],
                            IF p.octave # None THEN p.octave[1] ELSE 0,
                            IF p.modifier # None THEN p.modifier[1] ELSE 0)
        p1 == IF resolve
              THEN [p EXCEPT !.pitch_bend = res[2], !.note = Some(res[1])]
              ELSE p
    IN  IF p1.duration # None THEN [p1 EXCEPT !.beat = Some(p1.duration[1] * 4)] ELSE p1

----------------------------------------------------------------------------
(* items.py: Chord objects.  A chord owns its Pitch objects; the helper    *)
(* lists are None until update_notes has run.                              *)

\* midi_to_freq(note) = (440 / 32) * 2 ** ((note - 9) / 12), kept as the
\* number of semitones above the note of 13.75 Hz
midi_to_freq(note) == [semitones |-> note - 9]

RECURSIVE invert_loop(_, _, _)
\* for _ in range(abs(value)): the voice _ % len goes an octave up or down
invert_loop(pitches, i, value) ==
    IF i >= Abs(value) THEN pitches
    ELSE invert_loop(
             [pitches EXCEPT ![(i % Len(pitches)) + 1].local_options =
                 Put(@, "octave", GetInt(@, "octave") + (IF value <= 0 THEN -1 ELSE 1))],
             i + 1, value)

\* reversed(self.pitch_classes)
reversed(seq) == [i \in DOMAIN seq |-> seq[Len(seq) + 1 - i]]

\* Chord.invert
invert(chord, value) ==
    [chord EXCEPT !.pitch_classes =
        invert_loop(IF value < 0 THEN reversed(@) ELSE @, 0, value)]

\* Chord(pitch_classes=..., inversions=...) with Chord.__post_init__
NewChord(pitch_classes, inversions) ==
    LET chord == [pitch_classes |-> pitch_classes, inversions |-> inversions,
                  pitches |-> None, notes |-> None, freqs |-> None, octaves |-> None,
                  durations |-> None, beats |-> None, duration |-> None, beat |-> None,
                  local_options |-> Empty]
    IN  IF inversions # None THEN invert(chord, inversions[1]) ELSE chord

RECURSIVE insert_by_note(_, _)
\* the place of a pitch in a list sorted by note: behind every pitch whose
\* note is not above its own (sorted() is stable)
insert_by_note(p, sorted) ==
    IF sorted = <<>> THEN <<p>>
    ELSE IF p.note[1] < Head(sorted).note[1] THEN <<p>> \o sorted
    ELSE <<Head(sorted)>> \o insert_by_note(p, Tail(sorted))

RECURSIVE sorted_by_note(_)
\* sorted(self.pitch_classes, key=lambda x: x.note)
sorted_by_note(pitches) ==
    IF pitches = <<>> THEN <<>>
    ELSE insert_by_note(pitches[Len(pitches)],
                        sorted_by_note(SubSeq(pitches, 1, Len(pitches) - 1)))

\* the helper lists of Chord.update_notes, read off the sorted pitches
helper_lists(chord, pitches) ==
    [chord EXCEPT
        !.pitch_classes = pitches,
        !.pitches = Some([i \in DOMAIN pitches |-> pitches[i].pitch_class]),
        !.notes = Some([i \in DOMAIN pitches |-> pitches[i].note]),
        !.freqs = Some([i \in DOMAIN pitches |-> midi_to_freq(pitches[i].note[1])]),
        !.octaves = Some([i \in DOMAIN pitches |-> pitches[i].octave]),
        !.durations = Some([i \in DOMAIN pitches |-> pitches[i].duration]),
        !.duration = pitches[1].duration,
        !.beats = Some([i \in DOMAIN pitches |-> pitches[i].beat])]

\* update_notes that leaves the pitches in the order it has found them
update_notes_unsorted(chord, options) ==
    helper_lists(chord, [i \in DOMAIN chord.pitch_classes |->
                            update_note(update_options(chord.pitch_classes[i], options), TRUE)])

\* Chord.update_notes(options)
update_notes(chord, options) ==
    helper_lists(chord, sorted_by_note(
        [i \in DOMAIN chord.pitch_classes |->
            update_note(update_options(chord.pitch_classes[i], options), TRUE)]))

\* Meta.update_options on a Chord: of the keys of the options, a Chord has
\* the attribute duration only
chord_update_options(chord, options) ==
    IF "duration" \in DOMAIN options /\ chord.duration = None
    THEN [chord EXCEPT !.duration = Some(options["duration"]),
                       !.beat = Some(options["duration"] * 4)]
    ELSE chord

\* update_item on a Chord
update_chord(chord, options) ==
    IF {"key", "scale"} \subseteq DOMAIN options
    THEN update_notes(chord_update_options(chord, options), options)
    ELSE chord

----------------------------------------------------------------------------
(* AST nodes (built by mapper.py).  A Pitch node is a reference into the   *)
(* store; a Cyclic node has a counter cyc[cid]; a Measure node has a       *)
(* counter meas[mid]; a Subdivision node has its fields in sub[sid].        *)

Whitespace == [kind |-> "Whitespace"]
Pitch(id) == [kind |-> "Pitch", id |-> id]
Integer(value) == [kind |-> "Integer", value |-> value]
\* RandomInteger.__post_init__ swaps inverted bounds
RandomInteger(min, max) ==
    [kind |-> "RandomInteger", local_options |-> Empty,
     min |-> IF min > max THEN max ELSE min,
     max |-> IF min > max THEN min ELSE max]
\* Cyclic.__post_init__ drops the whitespace of its values
Cyclic(cid, values) ==
    [kind |-> "Cyclic", cid |-> cid,
     values |-> SelectSeq(values, LAMBDA v : v.kind # "Whitespace")]
ListSequence(values) == [kind |-> "ListSequence", values |-> values]
RepeatedListSequence(values, repeats) ==
    [kind |-> "RepeatedListSequence", values |-> values, repeats |-> repeats]
RepeatedSequence(values, repeats) ==
    [kind |-> "RepeatedSequence", values |-> values, repeats |-> repeats]
Subdivision(sid, values) == [kind |-> "Subdivision", sid |-> sid, values |-> values]
OctaveAdd(value) == [kind |-> "OctaveAdd", key |-> "octave", value |-> value]
OctaveChange(value) == [kind |-> "OctaveChange", key |-> "octave", value |-> value]
DurationChange(value) == [kind |-> "DurationChange", key |-> "duration", value |-> value]
Measure(mid) == [kind |-> "Measure", mid |-> mid]
VariableAssignment(name, value, pre_eval) ==
    [kind |-> "VariableAssignment", name |-> name, value |-> value, pre_eval |-> pre_eval]

Variable(name) == [kind |-> "Variable", name |-> name]

IsSequence(item) ==
    item.kind \in {"Sequence", "ListSequence", "RepeatedListSequence", "RepeatedSequence",
                   "Subdivision"}
IsModification(item) == item.kind \in {"OctaveAdd", "OctaveChange", "DurationChange"}

----------------------------------------------------------------------------
(* The evaluator.  Its state st threads everything a pass can change:      *)
(*   opt    the options dict that the pass mutates in place                *)
(*   cyc    Cyclic.cycle of every Cyclic node                              *)
(*   meas   Measure.measure of every Measure node                          *)
(*   sub    full_duration and evaluated_values of every Subdivision node   *)
(*   obj    the store of Pitch objects (tree objects, then fresh ones)     *)
(*   out    the items yielded so far to the consumer of the generator      *)
(*   rnd    the numbers the random source will return next                 *)
(*   drawn  the values random.randint has returned in this pass            *)
(*   served for every Cyclic node, the values get_value has returned       *)
(*   err    an exception was raised and is propagating                     *)
(* The generators are pulled by one consumer, so their side effects happen *)
(* in the order of a depth-first walk; depth counts the enclosing          *)
(* RepeatedListSequence.resolve_repeat loops, each of which resolves every *)
(* item again at the moment it is yielded.                                 *)

Raise(st) == [st EXCEPT !.err = TRUE]

\* random.randint(min, max)
randint(st, min, max) ==
    LET v == min + (Head(st.rnd) % (max - min + 1))
    IN  [v |-> v, st |-> [st EXCEPT !.rnd = Tail(@), !.drawn = Append(@, v)]]

\* Cyclic.get_value
get_value(item, st) ==
    LET value == item.values[(st.cyc[item.cid] % Len(item.values)) + 1]
    IN  [v |-> value,
         st |-> [st EXCEPT !.cyc[item.cid] = @ + 1,
                           !.served[item.cid] = Append(@, value)]]

\* resolve_integer_value; a value that is no number makes range() raise
RECURSIVE resolve_integer_value(_, _)
resolve_integer_value(item, st) ==
    CASE item.kind = "Cyclic" ->
            IF Len(item.values) = 0 THEN [v |-> 0, st |-> Raise(st)]
            ELSE LET r == get_value(item, st) IN resolve_integer_value(r.v, r.st)
      [] item.kind = "Integer" -> [v |-> item.value, st |-> st]
      [] item.kind = "Pitch" -> [v |-> st.obj[item.id].pitch_class, st |-> st]
      [] OTHER -> [v |-> 0, st |-> Raise(st)]

\* repeats = self.repeats.get_value(options), resolved further when no int
resolve_repeats(repeats, st) ==
    CASE repeats.kind = "Integer" -> [v |-> repeats.value, st |-> st]
      [] repeats.kind = "RandomInteger" -> randint(st, repeats.min, repeats.max)
      [] repeats.kind = "Cyclic" ->
            IF Len(repeats.values) = 0 THEN [v |-> 0, st |-> Raise(st)]
            ELSE LET r == get_value(repeats, st) IN resolve_integer_value(r.v, r.st)

\* every modification replaces the ambient value
update_modifications_replacing(current, st) ==
    [st EXCEPT !.opt = Put(@, current.key, current.value)]

\* update_modifications
update_modifications(current, st) ==
    IF current.kind \in {"OctaveChange", "DurationChange"}
    THEN [st EXCEPT !.opt = Put(@, current.key, current.value)]
    ELSE IF current.key \in DOMAIN st.opt
         THEN [st EXCEPT !.opt = Put(@, current.key, @[current.key] + current.value)]
         ELSE [st EXCEPT !.opt = Put(@, current.key, current.value)]

\* a bar line that counts the measure and leaves the options as they are
reset_options_keeping(item, st) ==
    LET next_measure == GetInt(st.opt, "measure") + 1
    IN  [st EXCEPT !.opt = Put(@, "measure", next_measure),
                   !.meas[item.mid] = next_measure]

\* Measure.reset_options
reset_options(item, st) ==
    LET next_measure == GetInt(st.opt, "measure") + 1
        start_options == st.opt["start_options"]
    IN  [st EXCEPT !.opt = Put(Put(start_options, "measure", next_measure),
                               "start_options", start_options),
                   !.meas[item.mid] = next_measure]

\* create_pitch: the value is drawn, note_from_pc returns the pair
\* (note, pitch_bend), and midi_to_freq(note) subtracts 9 from that pair,
\* which raises TypeError before the Pitch is built
create_pitch(current, st) ==
    LET merged_options == Merge(st.opt, current.local_options)
        c_modifier == GetInt(merged_options, "modifier")
        c_octave == IF "octave" \in DOMAIN merged_options
                    THEN IF "octave" \in DOMAIN st.opt
                         THEN st.opt["octave"] + merged_options["octave"]
                         ELSE merged_options["octave"]
                    ELSE 0
        current_value == randint(st, current.min, current.max)
        note == note_from_pc(merged_options["key"], current_value.v,
                             merged_options["scale"], c_octave, c_modifier)
    IN  Raise(current_value.st)

\* update_item on a Pitch object of the store
update_pitch(p, options) ==
    IF {"key", "scale"} \subseteq DOMAIN options
    THEN LET p1 == update_note(update_options(p, options), FALSE)
         IN  IF "pre_eval" \in DOMAIN options /\ options["pre_eval"]
             THEN [p1 EXCEPT !.duration = Some(options["duration"])]
             ELSE p1
    ELSE p

\* Pitch(pitch_class=value, kwargs=options): a fresh object in the store
new_pitch(st, value, options) ==
    [st EXCEPT !.obj = Append(@, update_note(update_options(NewPitch(value, Empty), options), FALSE))]

RECURSIVE pitch_ids(_)
\* the Pitch objects a list of items refers to, in the order of a walk
pitch_ids(items) ==
    IF items = <<>> THEN <<>>
    ELSE (IF Head(items).kind = "Pitch" THEN <<Head(items).id>> ELSE <<>>)
         \o (IF "values" \in DOMAIN Head(items) THEN pitch_ids(Head(items).values) ELSE <<>>)
         \o pitch_ids(Tail(items))

RECURSIVE copy_of(_, _, _)
\* deepcopy(opt_item), the nodes: the copy refers to the copies of the
\* objects, which are stored from base + 1 on in the order of ids
copy_of(node, ids, base) ==
    IF node.kind = "Pitch"
    THEN [node EXCEPT !.id = base + (CHOOSE k \in DOMAIN ids :
                                        /\ ids[k] = node.id
                                        /\ \A j \in 1 .. k - 1 : ids[j] # node.id)]
    ELSE IF "values" \in DOMAIN node
         THEN [node EXCEPT !.values = [i \in DOMAIN node.values |->
                                          copy_of(node.values[i], ids, base)]]
         ELSE node

\* deepcopy(opt_item), the objects: every Pitch of the value is stored again
copy_objects(ids, st) ==
    [st EXCEPT !.obj = @ \o [k \in DOMAIN ids |-> st.obj[ids[k]]]]

\* bool(options[item.name]): a Sequence is as true as it has values
truthy(value) == IsSequence(value) => Len(value.values) > 0

\* the copy has been resolved and is dropped: the counters and fields of the
\* nodes it was copied from are as they were, its effects on the options,
\* the objects and the random source stay
copy_resolved(st, after) ==
    [after EXCEPT !.cyc = st.cyc, !.served = st.served, !.meas = st.meas, !.sub = st.sub]

RECURSIVE resolve_item(_, _, _)
RECURSIVE resolve_variable(_, _, _)
RECURSIVE resolve_variable_shared(_, _, _)
RECURSIVE evaluate_tree(_, _, _)
RECURSIVE yield(_, _, _)
RECURSIVE rls_resolve_repeat(_, _, _, _)
RECURSIVE rs_replay(_, _, _, _)
RECURSIVE rs_evaluate(_, _)
RECURSIVE evaluate_values(_, _)

\* an item leaves a generator that runs inside depth resolve_repeat loops of
\* RepeatedListSequence: each loop passes it through resolve_item again
yield(item, st, depth) ==
    IF st.err THEN st
    ELSE IF depth = 0 THEN [st EXCEPT !.out = Append(@, item)]
    ELSE resolve_item(item, st, depth - 1)

\* Sequence.evaluate_tree: for item in values: yield from resolve_item(item, options)
evaluate_tree(values, st, depth) ==
    IF st.err \/ values = <<>> THEN st
    ELSE evaluate_tree(Tail(values), resolve_item(Head(values), st, depth), depth)

\* Subdivision.evaluate_values
evaluate_values(item, st) ==
    LET inner == evaluate_tree(item.values, [st EXCEPT !.out = <<>>], 0)
    IN  [inner EXCEPT !.out = st.out,
                      !.sub[item.sid] = [full_duration |-> Some(st.opt["duration"]),
                                         evaluated_values |-> inner.out]]

\* RepeatedListSequence.resolve_repeat, with n repeats left
rls_resolve_repeat(item, n, st, depth) ==
    IF st.err \/ n <= 0 THEN st
    ELSE rls_resolve_repeat(item, n - 1, evaluate_tree(item.values, st, depth + 1), depth)

\* RepeatedSequence.evaluate: acc = [buf, local_options, st]
rs_evaluate(values, acc) ==
    IF values = <<>> THEN acc
    ELSE LET item == Head(values)
             next ==
               CASE item.kind = "RepeatedSequence" -> [acc EXCEPT !.buf = Append(@, item)]
                 [] item.kind = "Subdivision" ->
                        [acc EXCEPT !.st = evaluate_values(item, @),
                                    !.buf = Append(@, item)]
                 [] IsSequence(item) /\ item.kind \notin {"RepeatedSequence", "Subdivision"} ->
                        [acc EXCEPT !.buf = @ \o item.values]
                 [] item.kind = "Cyclic" -> [acc EXCEPT !.buf = Append(@, item)]
                 [] IsModification(item) ->
                        [acc EXCEPT !.local_options = Put(@, item.key, item.value)]
                 [] item.kind = "Pitch" -> [acc EXCEPT !.buf = Append(@, item)]
                 [] item.kind = "RandomInteger" ->
                        LET r == randint(acc.st, item.min, item.max)
                            st1 == new_pitch(r.st, r.v, acc.local_options)
                        IN  [acc EXCEPT !.st = st1,
                                        !.buf = Append(@, Pitch(Len(st1.obj)))]
                 [] OTHER -> acc
         IN  rs_evaluate(Tail(values), next)

\* RepeatedSequence.resolve_repeat, the replay loop with n repeats left
rs_replay(buf, n, st, depth) ==
    IF st.err \/ n <= 0 THEN st
    ELSE rs_replay(buf, n - 1, evaluate_tree(buf, st, depth), depth)

\* a Variable that resolves the stored value itself
resolve_variable_shared(item, st, depth) ==
    IF item.name \notin DOMAIN st.opt THEN Raise(st)
    ELSE IF ~truthy(st.opt[item.name]) THEN st
    ELSE resolve_item(st.opt[item.name], st, depth)

\* resolve_item on a Variable: options[item.name] raises KeyError for a name
\* that is not bound; a bound value is deep-copied and the copy resolved
resolve_variable(item, st, depth) ==
    IF item.name \notin DOMAIN st.opt THEN Raise(st)
    ELSE IF ~truthy(st.opt[item.name]) THEN st
    ELSE copy_resolved(st,
             resolve_item(copy_of(st.opt[item.name], pitch_ids(<<st.opt[item.name]>>),
                                  Len(st.obj)),
                          copy_objects(pitch_ids(<<st.opt[item.name]>>), st), depth))

resolve_item(item, st, depth) ==
    IF st.err THEN st
    ELSE CASE item.kind = "RepeatedSequence" ->
                LET acc == rs_evaluate(item.values,
                                       [buf |-> <<>>, local_options |-> st.opt, st |-> st])
                    repeats == resolve_repeats(item.repeats, acc.st)
                IN  rs_replay(acc.buf, repeats.v, repeats.st, depth)
           [] item.kind = "RepeatedListSequence" ->
                LET repeats == resolve_repeats(item.repeats, st)
                IN  rls_resolve_repeat(item, repeats.v, repeats.st, depth)
           [] item.kind = "Subdivision" -> yield(item, evaluate_values(item, st), depth)
           [] item.kind \in {"Sequence", "ListSequence"} ->
                evaluate_tree(item.values, st, depth)
           [] item.kind = "VariableAssignment" ->
                IF item.pre_eval
                THEN LET pre_options == Put(st.opt, "pre_eval", TRUE)
                         sub == resolve_item(item.value,
                                             [st EXCEPT !.opt = pre_options, !.out = <<>>], 0)
                     IN  [sub EXCEPT !.out = st.out,
                                     !.opt = Put(st.opt, item.name,
                                                 [kind |-> "Sequence", values |-> sub.out])]
                ELSE [st EXCEPT !.opt = Put(@, item.name, item.value)]
           [] item.kind = "Variable" -> resolve_variable(item, st, depth)
           [] item.kind = "Cyclic" ->
                IF Len(item.values) = 0 THEN Raise(st)
                ELSE LET r == get_value(item, st) IN resolve_item(r.v, r.st, depth)
           [] IsModification(item) -> update_modifications(item, st)
           [] item.kind = "Measure" -> reset_options(item, st)
           [] item.kind = "Pitch" ->
                yield(item, [st EXCEPT !.obj[item.id] = update_pitch(@, st.opt)], depth)
           [] item.kind = "RandomInteger" ->
                IF {"key", "scale"} \subseteq DOMAIN st.opt
                THEN create_pitch(item, st)
                ELSE yield(item, st, depth)
           [] item.kind = "Whitespace" -> st
           [] OTHER -> yield(item, st, depth)

\* Subdivision.evaluate_durations; the division is exact for every
\* duration and child count of the trees below
RECURSIVE evaluate_durations(_, _, _)
RECURSIVE divide_durations(_, _, _)
RECURSIVE divide_durations_unshared(_, _, _)

\* the loop that hands a nested subdivision no share, so that it divides
\* the duration it has snapshot itself
divide_durations_unshared(items, new_d, st) ==
    IF st.err \/ items = <<>> THEN st
    ELSE LET item == Head(items)
             st1 == CASE item.kind = "Subdivision" -> evaluate_durations(item, None, st)
                      [] item.kind = "Pitch" ->
                            [st EXCEPT !.obj[item.id].duration = Some(new_d),
                                       !.out = Append(@, item)]
                      [] OTHER -> st
         IN  divide_durations_unshared(Tail(items), new_d, st1)

divide_durations(items, new_d, st) ==
    IF st.err \/ items = <<>> THEN st
    ELSE LET item == Head(items)
             st1 == CASE item.kind = "Subdivision" -> evaluate_durations(item, Some(new_d), st)
                      [] item.kind = "Pitch" ->
                            [st EXCEPT !.obj[item.id].duration = Some(new_d),
                                       !.out = Append(@, item)]
                      [] OTHER -> st
         IN  divide_durations(Tail(items), new_d, st1)

evaluate_durations(item, duration, st) ==
    LET d == IF duration = None THEN st.sub[item.sid].full_duration ELSE duration
        values == st.sub[item.sid].evaluated_values
    IN  IF Len(values) = 0 THEN Raise(st)
        ELSE divide_durations(values, d[1] \div Len(values), st)

\* Ziffers.post_evaluation over the items of the first pass
RECURSIVE post_evaluation(_, _)
post_evaluation(items, st) ==
    IF st.err \/ items = <<>> THEN st
    ELSE post_evaluation(Tail(items),
                         IF Head(items).kind = "Subdivision"
                         THEN evaluate_durations(Head(items), None, st)
                         ELSE [st EXCEPT !.out = Append(@, Head(items))])

----------------------------------------------------------------------------
(* The trees the root is built from.  pitches lists the Pitch objects of   *)
(* the tree as <<pitch_class, local_options>>; ncyc, nmeas and nsub count  *)
(* its Cyclic, Measure and Subdivision nodes; ndraws bounds the random     *)
(* draws of one pass.                                                      *)

Oct(n) == [k \in {"octave"} |-> n]

Tree(values, pitches, ncyc, nmeas, nsub, ndraws) ==
    [values |-> values, pitches |-> pitches, ncyc |-> ncyc, nmeas |-> nmeas,
     nsub |-> nsub, ndraws |-> ndraws]

\* "1 2 3"
TreePlain ==
    Tree(<<Pitch(1), Whitespace, Pitch(2), Whitespace, Pitch(3)>>,
         <<<<1, Empty>>, <<2, Empty>>, <<3, Empty>>>>, 0, 0, 0, 0)

\* "<(1 2) 3> 4": the realized list has 3, 2, 3, ... items
TreeCyclic ==
    Tree(<<Cyclic(1, <<ListSequence(<<Pitch(1), Whitespace, Pitch(2)>>), Whitespace, Pitch(3)>>),
           Whitespace, Pitch(4)>>,
         <<<<1, Empty>>, <<2, Empty>>, <<3, Empty>>, <<4, Empty>>>>, 1, 0, 0, 0)

\* "^ 1 | _3 h 2 A~(4)"
TreeMeasure ==
    Tree(<<OctaveAdd(1), Whitespace, Pitch(1), Whitespace, Measure(1), Whitespace, Pitch(2),
           Whitespace, DurationChange(DUR_H), Whitespace, Pitch(3), Whitespace,
           VariableAssignment("A", ListSequence(<<Pitch(4)>>), FALSE)>>,
         <<<<1, Empty>>, <<3, Oct(-1)>>, <<2, Empty>>, <<4, Empty>>>>, 0, 1, 0, 0)

\* "[: 1 [: 2 :] 3 :]"
TreeRepeat ==
    Tree(<<RepeatedSequence(
             <<Whitespace, Pitch(1), Whitespace,
               RepeatedSequence(<<Whitespace, Pitch(2), Whitespace>>, Integer(2)),
               Whitespace, Pitch(3), Whitespace>>, Integer(2))>>,
         <<<<1, Empty>>, <<2, Empty>>, <<3, Empty>>>>, 0, 0, 0, 0)

\* "(: 1 (: 2 :) 3 :)"
TreeRepeatList ==
    Tree(<<RepeatedListSequence(
             <<Whitespace, Pitch(1), Whitespace,
               RepeatedListSequence(<<Whitespace, Pitch(2), Whitespace>>, Integer(2)),
               Whitespace, Pitch(3), Whitespace>>, Integer(2))>>,
         <<<<1, Empty>>, <<2, Empty>>, <<3, Empty>>>>, 0, 0, 0, 0)

\* "1:4"
TreeRepeatItem ==
    Tree(<<RepeatedListSequence(<<Pitch(1)>>, Integer(4))>>, <<<<1, Empty>>>>, 0, 0, 0, 0)

\* "[: (0,n) 3 :]", n being RandMax
TreeRepeatRandom ==
    Tree(<<RepeatedSequence(<<Whitespace, RandomInteger(0, RandMax), Whitespace, Pitch(1), Whitespace>>,
                            Integer(2))>>,
         <<<<3, Empty>>>>, 0, 0, 0, 1)

\* "[: [: (0,n) :] :]"
TreeRepeatNestedRandom ==
    Tree(<<RepeatedSequence(
             <<Whitespace, RepeatedSequence(<<Whitespace, RandomInteger(0, RandMax), Whitespace>>,
                                            Integer(2)),
               Whitespace>>, Integer(2))>>,
         <<>>, 0, 0, 0, 2)

\* "(: 1 (0,n) :)"
TreeRepeatListRandom ==
    Tree(<<RepeatedListSequence(<<Whitespace, Pitch(1), Whitespace, RandomInteger(0, RandMax),
                                  Whitespace>>, Integer(2))>>,
         <<<<1, Empty>>>>, 0, 0, 0, 2)

\* "[: 1 (: 2 :) 3 :]"
TreeRepeatMixed ==
    Tree(<<RepeatedSequence(
             <<Whitespace, Pitch(1), Whitespace,
               RepeatedListSequence(<<Whitespace, Pitch(2), Whitespace>>, Integer(2)),
               Whitespace, Pitch(3), Whitespace>>, Integer(2))>>,
         <<<<1, Empty>>, <<2, Empty>>, <<3, Empty>>>>, 0, 0, 0, 0)

\* "[: <1 2 3> :] <4 5>:<1 2>"
TreeRepeatCyclic ==
    Tree(<<RepeatedSequence(<<Whitespace, Cyclic(1, <<Pitch(1), Whitespace, Pitch(2), Whitespace,
                                                     Pitch(3)>>), Whitespace>>, Integer(2)),
           Whitespace,
           RepeatedListSequence(<<Cyclic(2, <<Pitch(4), Whitespace, Pitch(5)>>)>>,
                                Cyclic(3, <<Integer(1), Integer(2)>>))>>,
         <<<<1, Empty>>, <<2, Empty>>, <<3, Empty>>, <<4, Empty>>, <<5, Empty>>>>, 3, 0, 0, 0)

\* "w [1 [2 3]] 4"
TreeSubdivision ==
    Tree(<<DurationChange(DUR_W), Whitespace,
           Subdivision(1, <<Pitch(1), Whitespace, Subdivision(2, <<Pitch(2), Whitespace, Pitch(3)>>)>>),
           Whitespace, Pitch(4)>>,
         <<<<1, Empty>>, <<2, Empty>>, <<3, Empty>>, <<4, Empty>>>>, 0, 0, 2, 0)

\* "^ 1 | _ 3 | ^3 | 3 | _4"
TreeMeasureOctaves ==
    Tree(<<OctaveAdd(1), Whitespace, Pitch(1), Whitespace, Measure(1), Whitespace,
           OctaveAdd(-1), Whitespace, Pitch(2), Whitespace, Measure(2), Whitespace,
           Pitch(3), Whitespace, Measure(3), Whitespace,
           Pitch(4), Whitespace, Measure(4), Whitespace, Pitch(5)>>,
         <<<<1, Empty>>, <<3, Empty>>, <<3, Oct(1)>>, <<3, Empty>>, <<4, Oct(-1)>>>>,
         0, 4, 0, 0)

\* "e 1 | 3 | h 3 | e3 | 4"
TreeMeasureDurations ==
    Tree(<<DurationChange(DUR_E), Whitespace, Pitch(1), Whitespace, Measure(1), Whitespace,
           Pitch(2), Whitespace, Measure(2), Whitespace,
           DurationChange(DUR_H), Whitespace, Pitch(3), Whitespace, Measure(3), Whitespace,
           Pitch(4), Whitespace, Measure(4), Whitespace, Pitch(5)>>,
         <<<<1, Empty>>, <<3, Empty>>, <<3, Empty>>, <<3, [k \in {"duration"} |-> DUR_E]>>,
           <<4, Empty>>>>,
         0, 4, 0, 0)

\* "A~<1 2> A A 5"
TreeVariable ==
    Tree(<<VariableAssignment("A", Cyclic(1, <<Pitch(1), Whitespace, Pitch(2)>>), FALSE),
           Whitespace, Variable("A"), Whitespace, Variable("A"), Whitespace, Pitch(3)>>,
         <<<<1, Empty>>, <<2, Empty>>, <<5, Empty>>>>, 1, 0, 0, 0)

\* "A=(<1 2> 3) A A"
TreeVariablePreEvaluated ==
    Tree(<<VariableAssignment("A", ListSequence(<<Cyclic(1, <<Pitch(1), Whitespace, Pitch(2)>>),
                                                  Whitespace, Pitch(3)>>), TRUE),
           Whitespace, Variable("A"), Whitespace, Variable("A")>>,
         <<<<1, Empty>>, <<2, Empty>>, <<3, Empty>>>>, 1, 0, 0, 0)

\* "A~(4) A | A"
TreeVariableMeasure ==
    Tree(<<VariableAssignment("A", ListSequence(<<Pitch(1)>>), FALSE), Whitespace,
           Variable("A"), Whitespace, Measure(1), Whitespace, Variable("A")>>,
         <<<<4, Empty>>>>, 0, 1, 0, 0)

\* "A~(4) A | 1"
TreeVariableBar ==
    Tree(<<VariableAssignment("A", ListSequence(<<Pitch(1)>>), FALSE), Whitespace,
           Variable("A"), Whitespace, Measure(1), Whitespace, Pitch(2)>>,
         <<<<4, Empty>>, <<1, Empty>>>>, 0, 1, 0, 0)

\* "A~<1 2> <A 5>"
TreeVariableCyclic ==
    Tree(<<VariableAssignment("A", Cyclic(1, <<Pitch(1), Whitespace, Pitch(2)>>), FALSE),
           Whitespace, Cyclic(2, <<Variable("A"), Whitespace, Pitch(3)>>)>>,
         <<<<1, Empty>>, <<2, Empty>>, <<5, Empty>>>>, 2, 0, 0, 0)

\* "A=<1 2> A | 3"
TreeVariablePreBar ==
    Tree(<<VariableAssignment("A", Cyclic(1, <<Pitch(1), Whitespace, Pitch(2)>>), TRUE),
           Whitespace, Variable("A"), Whitespace, Measure(1), Whitespace, Pitch(3)>>,
         <<<<1, Empty>>, <<2, Empty>>, <<3, Empty>>>>, 1, 1, 0, 0)

\* "1 <1> 2 (_ 3) e 4" with the last pitch an octave up
TreeModifications ==
    Tree(<<Pitch(1), Whitespace, OctaveChange(1), Whitespace, Pitch(2), Whitespace,
           ListSequence(<<OctaveAdd(-1), Whitespace, Pitch(3)>>), Whitespace,
           DurationChange(DUR_E), Whitespace, Pitch(4)>>,
         <<<<1, Empty>>, <<2, Empty>>, <<3, Empty>>, <<4, Oct(1)>>>>, 0, 0, 0, 0)

\* "<^ _> 1 2" with the first pitch an octave up
TreeCyclicOctave ==
    Tree(<<Cyclic(1, <<OctaveAdd(1), Whitespace, OctaveAdd(-1)>>), Whitespace,
           Pitch(1), Whitespace, Pitch(2)>>,
         <<<<1, Oct(1)>>, <<2, Empty>>>>, 1, 0, 0, 0)

Trees ==
    <<TreePlain, TreeCyclic, TreeMeasure, TreeRepeat, TreeRepeatList, TreeRepeatItem,
      TreeRepeatRandom, TreeRepeatNestedRandom, TreeRepeatListRandom, TreeRepeatMixed,
      TreeRepeatCyclic, TreeSubdivision, TreeMeasureOctaves, TreeMeasureDurations,
      TreeVariable, TreeVariablePreEvaluated, TreeVariableMeasure, TreeVariableBar,
      TreeVariableCyclic, TreeVariablePreBar, TreeModifications,
      TreeCyclicOctave>>

\* the options a caller passes to zparse
SuppliedOptions == {Empty, Oct(1)}

----------------------------------------------------------------------------
(* The root sequence runtime (root.py) *)

VARIABLES
    tree,              \* index in Trees of the parsed tree (Ziffers.values)
    phase,             \* "parsed", "realized", or "failed" when init_opts raised
    options,           \* Ziffers.options
    start_options,     \* Ziffers.start_options, None before init_opts
    evaluated_values,  \* Ziffers.evaluated_values
    cycle_i,           \* Ziffers.cycle_i, the last served cycle
    cycle_length,      \* Ziffers.cycle_length
    loop_i,            \* Ziffers.loop_i
    iterator,          \* items Ziffers.iterator has consumed from its list
    iterated,          \* the list Ziffers.iterator runs over
    current,           \* Ziffers.current
    cyc, meas, sub,    \* fields of the Cyclic, Measure and Subdivision nodes
    obj,               \* the Pitch objects
    passes,            \* evaluation passes started so far
    entry_options,     \* the options the last pass was started with
    drawn,             \* the random values of the last pass
    served,            \* per Cyclic node, the values get_value has returned
    nexted,            \* the items __next__ has returned from the current iterator
    last               \* the last call: operation, arguments, result

vars == <<tree, phase, options, start_options, evaluated_values, cycle_i, cycle_length,
          loop_i, iterator, iterated, current, cyc, meas, sub, obj, passes, entry_options,
          drawn, served, nexted, last>>

\* the root object as one record
Self ==
    [options |-> options, start_options |-> start_options,
     evaluated_values |-> evaluated_values, cycle_i |-> cycle_i,
     cycle_length |-> cycle_length, loop_i |-> loop_i, iterator |-> iterator,
     iterated |-> iterated, current |-> current, cyc |-> cyc, meas |-> meas, sub |-> sub,
     obj |-> obj, passes |-> passes, entry_options |-> entry_options, drawn |-> drawn,
     served |-> served, nexted |-> nexted]

Becomes(self) ==
    /\ options' = self.options
    /\ start_options' = self.start_options
    /\ evaluated_values' = self.evaluated_values
    /\ cycle_i' = self.cycle_i
    /\ cycle_length' = self.cycle_length
    /\ loop_i' = self.loop_i
    /\ iterator' = self.iterator
    /\ iterated' = self.iterated
    /\ current' = self.current
    /\ cyc' = self.cyc
    /\ meas' = self.meas
    /\ sub' = self.sub
    /\ obj' = self.obj
    /\ passes' = self.passes
    /\ entry_options' = self.entry_options
    /\ drawn' = self.drawn
    /\ served' = self.served
    /\ nexted' = self.nexted

Values == Trees[tree].values

\* The objects a pass creates are numbered after those of the tree.  The
\* objects created by the pass before are dropped when a pass has replaced
\* every list that refers to them; a reference that outlives them (current,
\* or the iterator's list when post_evaluation raises) is renumbered or
\* keeps the object itself.
NTree == Len(Trees[tree].pitches)

Fresh(store) == SubSeq(store, NTree + 1, Len(store))

Renumber(item, by) ==
    IF item.kind = "Pitch" /\ item.id > NTree THEN [item EXCEPT !.id = @ + by] ELSE item

Detach(cur, store) ==
    IF cur # None /\ cur[1].kind = "Pitch" /\ cur[1].id > NTree
    THEN Some([kind |-> "Detached", object |-> store[cur[1].id]])
    ELSE cur

\* the evaluator state a pass starts in: the options it is given, the
\* nodes and the objects of the tree, nothing yielded
pass_state(self, opts, oracle) ==
    [opt |-> opts, cyc |-> self.cyc, meas |-> self.meas, sub |-> self.sub,
     obj |-> SubSeq(self.obj, 1, NTree), out |-> <<>>, rnd |-> oracle,
     drawn |-> <<>>, served |-> self.served, err |-> FALSE]

\* what a pass leaves on the root and its nodes, however it ends
touched(self, opts, st) ==
    [self EXCEPT !.options = st.opt, !.cyc = st.cyc, !.meas = st.meas, !.sub = st.sub,
                 !.drawn = st.drawn, !.served = st.served, !.passes = @ + 1,
                 !.entry_options = opts]

\* Ziffers.init_tree after its passes: st1 is the state after evaluate_tree,
\* st2 the state after post_evaluation.  When a pass raises, the
\* assignments after it are not reached, but what the pass did to the
\* options and to the nodes stays.
init_tree_assign(self, opts, st1, st2) ==
    IF st1.err
    THEN [self |-> [touched(self, opts, st1) EXCEPT
                       !.obj = SubSeq(st1.obj, 1, NTree) \o Fresh(self.obj)],
          raised |-> TRUE]
    ELSE IF st2.err
         THEN [self |-> [touched(self, opts, st2) EXCEPT
                            !.obj = st2.obj \o Fresh(self.obj),
                            !.evaluated_values = st1.out,
                            !.iterated = [i \in DOMAIN @ |->
                                             Renumber(@[i], Len(st2.obj) - NTree)],
                            !.nexted = [i \in DOMAIN @ |->
                                           Renumber(@[i], Len(st2.obj) - NTree)],
                            !.current = IF @ = None THEN @
                                        ELSE Some(Renumber(@[1], Len(st2.obj) - NTree))],
               raised |-> TRUE]
         ELSE [self |-> [touched(self, opts, st2) EXCEPT
                            !.obj = st2.obj,
                            !.current = Detach(@, self.obj),
                            !.evaluated_values = st2.out,
                            !.iterated = st2.out, !.iterator = 0,
                            !.nexted = <<>>,
                            !.cycle_length = Len(st2.out)],
               raised |-> FALSE]

\* the second pass of Ziffers.init_tree over what the first has yielded
init_tree_post(self, opts, st1) ==
    init_tree_assign(self, opts, st1, post_evaluation(st1.out, [st1 EXCEPT !.out = <<>>]))

\* Ziffers.init_tree: the two passes, then the iterator and the length
init_tree(self, opts, oracle) ==
    init_tree_post(self, opts, evaluate_tree(Values, pass_state(self, opts, oracle), 0))

\* Ziffers.init_opts
init_opts(self, supplied, oracle) ==
    LET opts == IF supplied # Empty
                THEN Merge(Merge(self.options, DEFAULT_OPTIONS), supplied)
                ELSE DEFAULT_OPTIONS
    IN  init_tree([self EXCEPT !.start_options = Some(opts)],
                  Put(opts, "start_options", opts), oracle)

\* re_eval that goes on from the options the pass before has left
re_eval_from_options(self, oracle) ==
    init_tree(self, self.options, oracle)

\* re_eval that rewinds the Cyclic nodes
re_eval_rewinding(self, oracle) ==
    init_tree([self EXCEPT !.cyc = [c \in DOMAIN @ |-> 0]],
              Put(self.start_options[1], "start_options", self.start_options[1]), oracle)

\* Ziffers.re_eval
re_eval(self, oracle) ==
    init_tree(self, Put(self.start_options[1], "start_options", self.start_options[1]), oracle)

\* the test that only sees a higher cycle
cycle_changed_upwards(new_cycle, old_cycle) == new_cycle > old_cycle

\* the test of Ziffers.__getitem__ that a new cycle has to be realized
cycle_changed(new_cycle, old_cycle) == new_cycle > old_cycle \/ new_cycle < old_cycle

\* the bookkeeping that keeps the position computed with the old length
enter_cycle_stale(self, index, new_cycle) ==
    [self EXCEPT !.cycle_i = new_cycle, !.cycle_length = Len(self.evaluated_values)]

\* the bookkeeping of Ziffers.__getitem__ after re_eval; with an empty
\* list the last assignment divides by zero
enter_cycle(self, index, new_cycle) ==
    LET s == [self EXCEPT !.cycle_i = new_cycle,
                          !.cycle_length = Len(self.evaluated_values)]
    IN  IF s.cycle_length = 0 THEN s ELSE [s EXCEPT !.loop_i = index % s.cycle_length]

\* return self.evaluated_values[self.loop_i]
getitem_return(self) ==
    IF self.cycle_length = 0 THEN [self |-> self, ret |-> <<>>, raised |-> TRUE]
    ELSE [self |-> self, ret |-> <<self.evaluated_values[self.loop_i + 1]>>,
          raised |-> FALSE]

\* Ziffers.__getitem__ once re_eval has run with the result r
getitem_re_evaluated(r, index, new_cycle) ==
    IF r.raised THEN [self |-> r.self, ret |-> <<>>, raised |-> TRUE]
    ELSE getitem_return(enter_cycle(r.self, index, new_cycle))

\* Ziffers.__getitem__; ret is <<item>>, or <<>> when the call raised
getitem(self, index, oracle) ==
    IF self.cycle_length = 0 THEN [self |-> self, ret |-> <<>>, raised |-> TRUE]
    ELSE IF cycle_changed(index \div self.cycle_length, self.cycle_i)
         THEN getitem_re_evaluated(
                  re_eval([self EXCEPT !.loop_i = index % self.cycle_length], oracle),
                  index, index \div self.cycle_length)
         ELSE getitem_return([self EXCEPT !.loop_i = index % self.cycle_length])

\* __next__ that takes loop_i for the cursor
next_at_loop_i(self) ==
    IF self.loop_i < Len(self.evaluated_values)
    THEN LET item == self.evaluated_values[self.loop_i + 1]
         IN  [self |-> [self EXCEPT !.iterator = @ + 1, !.current = Some(item),
                                    !.loop_i = @ + 1, !.nexted = Append(@, item)],
              ret |-> <<item>>, raised |-> FALSE]
    ELSE [self |-> self, ret |-> <<>>, raised |-> TRUE]

\* Ziffers.__next__; StopIteration leaves the object as it was
next(self) ==
    IF self.iterator < Len(self.iterated)
    THEN LET item == self.iterated[self.iterator + 1]
         IN  [self |-> [self EXCEPT !.iterator = @ + 1, !.current = Some(item),
                                    !.loop_i = @ + 1, !.nexted = Append(@, item)],
              ret |-> <<item>>, raised |-> FALSE]
    ELSE [self |-> self, ret |-> <<>>, raised |-> TRUE]

\* Ziffers.take: list(islice(cycle(self), num)).  cycle() draws from
\* __next__ until it stops, keeping what it drew, and then repeats what it
\* kept; islice stops it after num items.
RECURSIVE take_loop(_, _, _, _)
take_loop(self, num, saved, result) ==
    IF Len(result) = num THEN [self |-> self, ret |-> result, raised |-> FALSE]
    ELSE LET n == next(self)
         IN  IF ~n.raised
             THEN take_loop(n.self, num, saved \o n.ret, result \o n.ret)
             ELSE IF saved = <<>> THEN [self |-> self, ret |-> result, raised |-> FALSE]
                  ELSE [self |-> self,
                        ret |-> result \o [i \in 1 .. (num - Len(result)) |->
                                                saved[((i - 1) % Len(saved)) + 1]],
                        raised |-> FALSE]

\* take that realizes the tree again when the iteration wraps around
take_re_evaluating(self, num) ==
    LET t == take_loop(self, num, <<>>, <<>>)
        left == Len(self.iterated) - self.iterator
    IN  IF left > 0 /\ num > left
        THEN [self |-> re_eval(t.self, [i \in 1 .. Trees[tree].ndraws |-> 0]).self,
              ret |-> t.ret, raised |-> FALSE]
        ELSE t

\* Ziffers.take
take(self, num) == take_loop(self, num, <<>>, <<>>)

RECURSIVE collect_values(_, _, _, _, _, _)
RECURSIVE collect_keys(_, _, _, _, _, _)

\* getattr(self[i], key, None), kept with the event as it was read
collect_read(self, item, key) ==
    [value |-> IF key \in DOMAIN self.obj[item.id] THEN self.obj[item.id][key] ELSE None,
     id |-> item.id,
     event |-> self.obj[item.id]]

\* values.append(getattr(self[i], key, None)) with the result g of self[i]
collect_append(g, key, i, num, values, oracle) ==
    IF g.raised THEN [self |-> g.self, values |-> values, raised |-> TRUE]
    ELSE collect_values(g.self, key, i + 1, num,
                        Append(values, collect_read(g.self, g.ret[1], key)), oracle)

\* for i in range(num): values.append(getattr(self[i], key, None))
collect_values(self, key, i, num, values, oracle) ==
    IF i >= num THEN [self |-> self, values |-> values, raised |-> FALSE]
    ELSE collect_append(getitem(self, i, oracle), key, i, num, values, oracle)

\* all_items.append(values) with the result v of the loop over the indices
collect_next_key(v, keys, k, num, all_items, oracle) ==
    IF v.raised THEN [self |-> v.self, ret |-> <<>>, raised |-> TRUE]
    ELSE collect_keys(v.self, keys, k + 1, num, Append(all_items, v.values), oracle)

\* for key in keys: the indices start at 0 again for every key
collect_keys(self, keys, k, num, all_items, oracle) ==
    IF k > Len(keys)
    THEN [self |-> self,
          ret |-> IF Len(all_items) > 1 THEN all_items
                  ELSE IF Len(all_items) = 1 THEN all_items[1] ELSE None,
          raised |-> FALSE]
    ELSE collect_next_key(collect_values(self, keys[k], 0, num, <<>>, oracle),
                          keys, k, num, all_items, oracle)

\* Ziffers.collect(num, keys), keys a list of attribute names
collect(self, num, keys, oracle) ==
    collect_keys(self, keys, 1,
                 IF num = None THEN Len(self.evaluated_values) ELSE num[1], <<>>, oracle)

----------------------------------------------------------------------------
(* The state machine *)

Oracles == [1 .. Trees[tree].ndraws -> 0 .. RandMax]

\* the indices a caller asks for, given the length of the realized list
Indices == {c * cycle_length + o : c \in 0 .. MaxCycle, o \in 0 .. MaxOffset}

\* the call op(index) has run with the result r: the root is as the call
\* left it, and last records the call
Returns(op, index, r) ==
    /\ Becomes(r.self)
    /\ last' = [op |-> op, index |-> index, ret |-> r.ret, raised |-> r.raised]

\* a tree has been parsed and the root is constructed
Parsed(trees) ==
    /\ tree \in trees
    /\ phase = "parsed"
    /\ options = Empty
    /\ start_options = None
    /\ evaluated_values = <<>>
    /\ cycle_i = 0
    /\ cycle_length = 0
    /\ loop_i = 0
    /\ iterator = 0
    /\ iterated = <<>>
    /\ current = None
    /\ cyc = [c \in 1 .. Trees[tree].ncyc |-> 0]
    /\ meas = [m \in 1 .. Trees[tree].nmeas |-> 0]
    /\ sub = [s \in 1 .. Trees[tree].nsub |->
                 [full_duration |-> None, evaluated_values |-> <<>>]]
    /\ obj = [i \in 1 .. Len(Trees[tree].pitches) |->
                 NewPitch(Trees[tree].pitches[i][1], Trees[tree].pitches[i][2])]
    /\ passes = 0
    /\ entry_options = Empty
    /\ drawn = <<>>
    /\ served = [c \in 1 .. Trees[tree].ncyc |-> <<>>]
    /\ nexted = <<>>
    /\ last = [op |-> "parse", index |-> 0, ret |-> <<>>, raised |-> FALSE]

\* the trees the calls of the root are exercised on: "1 2 3", "<(1 2) 3> 4",
\* "^ 1 | _3 h 2 A~(4)", "[: (0,n) 3 :]" and "[: <1 2 3> :] <4 5>:<1 2>"
RootTrees == {1, 2, 3, 7, 11}

Init == Parsed(RootTrees)

\* zparse(expr, **opts) has run init_opts with the result r
Constructed(r) ==
    /\ Becomes(r.self)
    /\ phase' = IF r.raised THEN "failed" ELSE "realized"
    /\ last' = [op |-> "init", index |-> 0, ret |-> <<>>, raised |-> r.raised]

\* zparse(expr, **opts): init_opts on the parsed tree
InitOpts ==
    /\ phase = "parsed"
    /\ \E supplied \in SuppliedOptions, oracle \in Oracles :
          Constructed(init_opts(Self, supplied, oracle))
    /\ UNCHANGED tree

\* z[index] has run with the result r; the passes of one root are bounded
Got(index, r) ==
    /\ r.self.passes <= MaxPasses
    /\ Returns("get", index, r)

\* z[index]; the random source is consulted only when the call re-evaluates
GetItem ==
    /\ phase = "realized"
    /\ \E index \in Indices :
       \E oracle \in IF cycle_length # 0 /\ cycle_changed(index \div cycle_length, cycle_i)
                     THEN Oracles ELSE {[i \in 1 .. Trees[tree].ndraws |-> 0]} :
          Got(index, getitem(Self, index, oracle))
    /\ UNCHANGED <<tree, phase>>

\* next(z)
NextItem ==
    /\ phase = "realized"
    /\ Returns("next", 0, next(Self))
    /\ UNCHANGED <<tree, phase>>

\* z.take(num)
Take ==
    /\ phase = "realized"
    /\ \E num \in 0 .. MaxTake : Returns("take", num, take(Self, num))
    /\ UNCHANGED <<tree, phase>>

\* the keys a caller collects
KeyLists == {<<"pitch_class">>, <<"pitch_class", "duration">>, <<"pitch_class", "note">>}

\* z.collect(num, keys) has run with the result r
Collected(num, keys, r) ==
    /\ Becomes(r.self)
    /\ last' = [op |-> "collect", index |-> 0, num |-> num, keys |-> keys,
                ret |-> r.ret, raised |-> r.raised]

\* z.collect(num, keys)
Collect ==
    /\ phase = "realized"
    /\ passes < MaxPasses
    /\ \E num \in {None} \cup {Some(n) : n \in 1 .. MaxCollect}, keys \in KeyLists,
          oracle \in Oracles :
          Collected(num, keys, collect(Self, num, keys, oracle))
    /\ UNCHANGED <<tree, phase>>

Next == InitOpts \/ GetItem \/ NextItem \/ Take

Spec == Init /\ [][Next]_vars

\* every tree, realized at construction and again by positional access
EvaluatorTrees == (1 .. 14) \cup {21, 22}

InitEvaluator == Parsed(EvaluatorTrees)

NextEvaluator == InitOpts \/ GetItem

SpecEvaluator == InitEvaluator /\ [][NextEvaluator]_vars

\* z[i] for i = 0, 1, 2, ...: the index after the one read last
GetAscending ==
    /\ phase = "realized"
    /\ last.op \in {"init", "get"}
    /\ \E index \in {IF last.op = "init" THEN 0 ELSE last.index + 1} :
          /\ index <= MaxAscending
          /\ \E oracle \in IF cycle_length # 0
                              /\ cycle_changed(index \div cycle_length, cycle_i)
                           THEN Oracles ELSE {[i \in 1 .. Trees[tree].ndraws |-> 0]} :
                Returns("get", index, getitem(Self, index, oracle))
    /\ UNCHANGED <<tree, phase>>

\* the trees read in ascending order: without random nodes, with realized
\* lists of one length and of changing lengths
AscendingTrees == {1, 2, 3, 11, 12, 13, 14, 21}

InitAscending == Parsed(AscendingTrees)

NextAscending == InitOpts \/ GetAscending

SpecAscending == InitAscending /\ [][NextAscending]_vars

\* the trees with variables, realized at construction and again by
\* positional access
VariableTrees == 15 .. 20

InitVariables == Parsed(VariableTrees)

SpecVariables == InitVariables /\ [][NextEvaluator]_vars

\* the roots, realized at construction and then collected from
NextCollect == InitOpts \/ Collect

SpecCollect == Init /\ [][NextCollect]_vars

----------------------------------------------------------------------------
(* Calls of the functions the evaluator is built on *)

\* what a call of a function leaves alone: the root and its tree
root_vars == <<tree, phase, options, start_options, evaluated_values, cycle_i,
               cycle_length, loop_i, iterator, iterated, current, cyc, meas, sub, obj,
               passes, entry_options, drawn, served, nexted>>

\* the octaves of events and contexts
OctaveRange == (0 - MaxOct) .. MaxOct

\* the local options the parser gives a Pitch: none, octave prefixes
\* ("^", "_"), an escaped octave ("<c>"), a duration prefix
LocalOptions ==
    {Empty, [k \in {"duration"} |-> DUR_E]}
        \cup {Oct(o) : o \in OctaveRange}
        \cup {[k \in {"octave_change"} |-> c] : c \in OctaveRange}

\* a Pitch as the parser builds it, or as an earlier pass has left it
Event(lo, octave, duration) ==
    [NewPitch(1, lo) EXCEPT !.octave = octave, !.duration = duration,
                            !.beat = IF duration = None THEN None ELSE Some(duration[1] * 4)]

\* item.update_options(options); the functions keep nothing between calls,
\* so each call is made on the freshly parsed state
UpdateOptions ==
    /\ last.op = "parse"
    /\ \E lo \in LocalOptions, a \in OctaveRange,
          octave \in {None} \cup {Some(o) : o \in OctaveRange},
          duration \in {None, Some(DUR_H)} :
          last' = [op |-> "update_options",
                   event |-> Event(lo, octave, duration),
                   options |-> Put(DEFAULT_OPTIONS, "octave", a),
                   ret |-> update_options(Event(lo, octave, duration),
                                          Put(DEFAULT_OPTIONS, "octave", a))]
    /\ UNCHANGED root_vars

\* the scales handed to note_from_pc as intervals: Ionian, a pentatonic
\* one, and one of two steps
Scales == {IONIAN, <<2, 2, 3, 2, 3>>, <<5, 7>>}

\* note_from_pc(root, pitch_class, intervals, octave, modifier), together
\* with the calls for the pitch class `fold` scale lengths up and for the
\* octave `fold` up
ResolveNote ==
    /\ last.op = "parse"
    /\ \E root \in {57, 60}, intervals \in Scales, pitch_class \in (0 - MaxPc) .. MaxPc,
          octave \in OctaveRange, modifier \in {-1, 0, 1}, fold \in (0 - MaxFold) .. MaxFold :
          last' = [op |-> "note_from_pc", root |-> root, pitch_class |-> pitch_class,
                   intervals |-> intervals, octave |-> octave, modifier |-> modifier,
                   fold |-> fold,
                   ret |-> note_from_pc(root, pitch_class, intervals, octave, modifier),
                   folded |-> note_from_pc(root, pitch_class + (fold * Len(intervals)),
                                           intervals, octave, modifier),
                   lifted |-> note_from_pc(root, pitch_class, intervals, octave + fold,
                                           modifier)]
    /\ UNCHANGED root_vars

\* euclidian_rhythm(pulses, length, rot)
EuclidianRhythm ==
    /\ last.op = "parse"
    /\ \E pulses \in 0 .. MaxLength, length \in 1 .. MaxLength, rot \in (0 - MaxRot) .. MaxRot :
          last' = [op |-> "euclidian_rhythm", pulses |-> pulses, length |-> length,
                   rot |-> rot, ret |-> euclidian_rhythm(pulses, length, rot)]
    /\ UNCHANGED root_vars

\* the arithmetic an operator token stands for, on integers; the remainder
\* has the sign of the divisor and a zero divisor raises
operation(op, a, b) ==
    CASE op = "+" -> Some(a + b)
      [] op = "-" -> Some(a - b)
      [] op = "*" -> Some(a * b)
      [] op = "%" -> IF b > 0 THEN Some(a % b)
                     ELSE IF b < 0 THEN Some(0 - ((0 - a) % (0 - b)))
                     ELSE None

\* itertools.product(right, left): right is the outer loop
product(right, left) ==
    [k \in 1 .. Len(right) * Len(left) |->
        <<right[((k - 1) \div Len(left)) + 1], left[((k - 1) % Len(left)) + 1]>>]

\* _python_operations on operands of pitches: for every pair (first, second)
\* of the product a Pitch of pitch class operation(first, second)
python_operations(left, right, op) ==
    LET pairs == product(right, left)
        outcome == [k \in DOMAIN pairs |-> operation(op, pairs[k][1], pairs[k][2])]
    IN  IF \E k \in DOMAIN outcome : outcome[k] = None
        THEN [raised |-> TRUE, values |-> <<>>]
        ELSE [raised |-> FALSE, values |-> [k \in DOMAIN outcome |-> outcome[k][1]]]

RECURSIVE list_operation_loop(_, _, _, _)
\* the loop of ListOperation.evaluate from operator i on, left the
\* accumulated result
list_operation_loop(left, operators, values, i) ==
    IF i > Len(operators) THEN [raised |-> FALSE, values |-> left]
    ELSE LET r == python_operations(left, values[i + 1], operators[i])
         IN  IF r.raised THEN r
             ELSE list_operation_loop(r.values, operators, values, i + 1)

\* ListOperation.evaluate on operand lists of pitch classes
list_operation_evaluate(operators, values) ==
    list_operation_loop(values[1], operators, values, 1)

\* the operand lists and operators of the list operations evaluated
Operands == {<<1, 2, 7>>, <<3, 5>>, <<4>>, <<0, 6>>}

Operators == {"+", "-", "*", "%"}

\* a ListOperation of two or three operands is evaluated
ListOperate ==
    /\ last.op = "parse"
    /\ \E left \in Operands, right \in Operands, op \in Operators :
       \E more \in {<<>>} \cup {<<o, x>> : o \in {"-"}, x \in {<<4>>}} :
          LET operators == IF more = <<>> THEN <<op>> ELSE <<op, more[1]>>
              values == IF more = <<>> THEN <<left, right>> ELSE <<left, right, more[2]>>
          IN  last' = [op |-> "list_operation", operators |-> operators, values |-> values,
                       ret |-> list_operation_evaluate(operators, values)]
    /\ UNCHANGED root_vars

Euclid(onset, pulses, length, rotate, offset) ==
    [kind |-> "Euclid", onset |-> onset, pulses |-> pulses, length |-> length,
     rotate |-> rotate, offset |-> offset]

Rest(duration) == [kind |-> "Rest", duration |-> duration]

\* [val for val in values if not isinstance(val, Whitespace)]
without_whitespace(values) == SelectSeq(values, LAMBDA val : val.kind # "Whitespace")

\* the steps before step i that took the branch on
taken(booleans, i, on) == Cardinality({j \in 1 .. i - 1 : booleans[j] = on})

\* the value the loop of Euclid.evaluate appends at step i
euclid_step(euclid, opts, booleans, i) ==
    IF booleans[i]
    THEN without_whitespace(euclid.onset)
             [(taken(booleans, i, TRUE) % Len(without_whitespace(euclid.onset))) + 1]
    ELSE IF euclid.offset = None THEN Rest(opts["duration"])
         ELSE without_whitespace(euclid.offset[1])
                  [(taken(booleans, i, FALSE) % Len(without_whitespace(euclid.offset[1]))) + 1]

\* a step of the loop raises: booleans[i] past the end of the pattern, or a
\* modulo by the length of an empty list
euclid_step_raises(euclid, booleans, i) ==
    \/ i > Len(booleans)
    \/ booleans[i] /\ without_whitespace(euclid.onset) = <<>>
    \/ ~booleans[i] /\ euclid.offset # None /\ without_whitespace(euclid.offset[1]) = <<>>

\* Euclid.evaluate with the pattern booleans: the steps up to the first that
\* raises are appended to evaluated_values
euclid_evaluated(euclid, opts, booleans) ==
    LET bad == {i \in 1 .. euclid.length : euclid_step_raises(euclid, booleans, i)}
        done == IF bad = {} THEN euclid.length
                ELSE (CHOOSE i \in bad : \A j \in bad : i <= j) - 1
    IN  [raised |-> bad # {},
         evaluated_values |-> [i \in 1 .. done |-> euclid_step(euclid, opts, booleans, i)]]

\* Euclid.evaluate
euclid_evaluate(euclid, opts) ==
    euclid_evaluated(euclid, opts,
                     euclidian_rhythm(euclid.pulses, euclid.length, euclid.rotate))

\* the onset and offset lists of the Euclid nodes evaluated
OnsetLists == {<<Integer(1)>>, <<Integer(1), Whitespace, Integer(2), Whitespace, Integer(3)>>}

OffsetLists == {None, Some(<<Integer(7)>>), Some(<<Integer(7), Whitespace, Integer(8)>>)}

\* euclid.evaluate(options), the first step of euclidean_items
EvaluateEuclid ==
    /\ last.op = "parse"
    /\ \E onset \in OnsetLists, offset \in OffsetLists, rotate \in {0, 1},
          pulses \in 0 .. MaxLength, length \in 1 .. MaxLength :
          last' = [op |-> "euclid", euclid |-> Euclid(onset, pulses, length, rotate, offset),
                   options |-> DEFAULT_OPTIONS,
                   ret |-> euclid_evaluate(Euclid(onset, pulses, length, rotate, offset),
                                           DEFAULT_OPTIONS)]
    /\ UNCHANGED root_vars

InitCalls == Parsed({1})

NextCalls == UpdateOptions \/ ResolveNote \/ EuclidianRhythm \/ ListOperate \/ EvaluateEuclid

SpecCalls == InitCalls /\ [][NextCalls]_vars

----------------------------------------------------------------------------
(* Chords: built by the parser, then passed through update_item by every   *)
(* evaluation pass                                                         *)

\* the pitch classes of the chords, lowest note not always first
ChordPitchClasses == {<<0, 2, 4>>, <<4, 0>>, <<6, 0, 3>>}

\* chord(items): the pitches of the chord, the first with octave prefixes
ParsedChord(pcs, lo, inversions) ==
    NewChord([i \in DOMAIN pcs |-> NewPitch(pcs[i], IF i = 1 THEN lo ELSE Empty)], inversions)

\* the parser builds a Chord, inverted when the text says so
ParseChord ==
    /\ last.op = "parse"
    /\ \E pcs \in ChordPitchClasses, lo \in {Empty, Oct(1), Oct(-1)},
          inversions \in {None} \cup {Some(v) : v \in (0 - MaxInversions) .. MaxInversions} :
          last' = [op |-> "chord", passes |-> 0, options |-> Empty,
                   chord |-> ParsedChord(pcs, lo, inversions)]
    /\ UNCHANGED root_vars

\* an evaluation pass reaches the Chord: update_item(item, options)
UpdateChord ==
    /\ last.op \in {"chord", "update_item"}
    /\ last.passes < MaxPasses
    /\ \E a \in OctaveRange, duration \in {DUR_Q, DUR_H} :
          last' = [op |-> "update_item", passes |-> last.passes + 1,
                   options |-> Put(Put(DEFAULT_OPTIONS, "octave", a), "duration", duration),
                   chord |-> update_chord(last.chord,
                                          Put(Put(DEFAULT_OPTIONS, "octave", a),
                                              "duration", duration))]
    /\ UNCHANGED root_vars

NextChords == ParseChord \/ UpdateChord

SpecChords == InitCalls /\ [][NextChords]_vars

----------------------------------------------------------------------------
(* Properties: positional access (root.py) *)

\* C1: a call get(index) runs the evaluator again exactly when index div
\* cycle_length, taken with the length before the call, differs from the
\* last served cycle, be it higher or lower; when it is equal the realized
\* list and every Cyclic counter stay as they were; after a call that
\* re-evaluated and returned, cycle_i is that quotient.
C1_GetReevaluatesOnCycleChange ==
    [][(last'.op = "get" /\ cycle_length # 0) =>
         LET quotient == last'.index \div cycle_length
         IN  /\ passes' = (IF quotient # cycle_i THEN passes + 1 ELSE passes)
             /\ quotient = cycle_i =>
                   /\ evaluated_values' = evaluated_values
                   /\ cyc' = cyc
                   /\ cycle_i' = cycle_i
             /\ (quotient # cycle_i /\ ~last'.raised) => cycle_i' = quotient]_vars

\* a third pass was started by a call that went back to cycle 0
C1_Witness ==
    /\ last.op = "get"
    /\ ~last.raised
    /\ passes = 3
    /\ cycle_i = 0
    /\ last.index \div cycle_length = 0

\* C2: once realized, cycle_length is the length of evaluated_values, and
\* a get that returns gives evaluated_values[index mod cycle_length], with
\* the length the list has after the call.
C2_GetReturnsPositionInRealizedList ==
    phase = "realized" =>
        /\ cycle_length = Len(evaluated_values)
        /\ (last.op = "get" /\ ~last.raised) =>
              /\ cycle_length > 0
              /\ last.ret = <<evaluated_values[(last.index % cycle_length) + 1]>>

\* a get that re-evaluated a list whose length is not the one of the first
\* pass, at an index whose position differs under the two lengths
C2_Witness ==
    /\ last.op = "get"
    /\ ~last.raised
    /\ passes >= 2
    /\ tree = 2
    /\ cycle_length = 2
    /\ last.index % 2 # last.index % 3

\* C3: every pass starts from the snapshot start_options (in which the
\* pass finds the snapshot itself under "start_options"), whatever the
\* pass before has left in options; no call changes the snapshot.
C3_PassStartsFromSnapshot ==
    [][/\ passes' # passes =>
             entry_options' = Put(start_options'[1], "start_options", start_options'[1])
       /\ phase = "realized" => start_options' = start_options]_vars

\* a later pass has run although the pass before had changed the duration
\* and left a measure counter and a variable in options
C3_Witness ==
    /\ last.op = "get"
    /\ passes >= 2
    /\ "A" \in DOMAIN options
    /\ "measure" \in DOMAIN options
    /\ options["duration"] # start_options[1]["duration"]
    /\ "A" \notin DOMAIN entry_options
    /\ entry_options["duration"] = start_options[1]["duration"]

RECURSIVE CyclicsIn(_)
\* the Cyclic nodes of a list of items
CyclicsIn(items) ==
    IF items = <<>> THEN {}
    ELSE LET h == Head(items)
         IN  (IF h.kind = "Cyclic" THEN {h} ELSE {})
             \cup (IF "values" \in DOMAIN h THEN CyclicsIn(h.values) ELSE {})
             \cup (IF "repeats" \in DOMAIN h THEN CyclicsIn(<<h.repeats>>) ELSE {})
             \cup CyclicsIn(Tail(items))

\* C4: the k-th value a Cyclic node hands out is values[(k-1) mod n], the
\* count running on across evaluation cycles: the counter is the number of
\* values handed out so far and is never reset.
C4_CyclicAdvancesAcrossCycles ==
    \A node \in CyclicsIn(Values) :
        LET c == node.cid
            n == Len(node.values)
        IN  /\ cyc[c] = Len(served[c])
            /\ \A k \in 1 .. Len(served[c]) :
                  served[c][k] = node.values[((k - 1) % n) + 1]

\* a Cyclic node of three values has gone round in a second pass
C4_Witness ==
    /\ passes >= 2
    /\ \E node \in CyclicsIn(Values) :
          /\ Len(node.values) = 3
          /\ cyc[node.cid] >= 4
          /\ served[node.cid][4] = node.values[1]

----------------------------------------------------------------------------
(* Properties: iteration and take (root.py) *)

\* C5: next never re-evaluates: it hands out the items of evaluated_values
\* in order, each once, then reports exhaustion, and leaves the realized
\* list, the served cycle and the Cyclic counters as they were.
C5_NextWalksRealizedListOnce ==
    [][last'.op = "next" =>
         /\ passes' = passes
         /\ evaluated_values' = evaluated_values
         /\ cycle_i' = cycle_i
         /\ cyc' = cyc
         /\ nexted = SubSeq(evaluated_values, 1, Len(nexted))
         /\ IF Len(nexted) < Len(evaluated_values)
            THEN /\ ~last'.raised
                 /\ last'.ret = <<evaluated_values[Len(nexted) + 1]>>
                 /\ nexted' = Append(nexted, evaluated_values[Len(nexted) + 1])
            ELSE /\ last'.raised
                 /\ nexted' = nexted]_vars

\* the whole list has been handed out and the next call found it exhausted,
\* after positional calls had moved loop_i
C5_Witness ==
    /\ last.op = "next"
    /\ last.raised
    /\ Len(evaluated_values) >= 2
    /\ nexted = evaluated_values
    /\ passes >= 2

C7_TakeStartsAtFirstItem ==
    (last.op = "take" /\ Len(evaluated_values) > 0) =>
        /\ Len(last.ret) = last.index
        /\ \A i \in 1 .. Len(last.ret) :
              last.ret[i] = evaluated_values[((i - 1) % Len(evaluated_values)) + 1]

----------------------------------------------------------------------------
(* Properties: repeats (sequences.py) *)

\* the pitch classes and the notes of the realized events
PitchClasses == [i \in DOMAIN evaluated_values |-> obj[evaluated_values[i].id].pitch_class]

Notes == [i \in DOMAIN evaluated_values |-> obj[evaluated_values[i].id].note]

\* the tree is one repeat of the given kind with a literal count
IsRepeatOf(kind) ==
    /\ Len(Values) = 1
    /\ Values[1].kind = kind
    /\ Values[1].repeats.kind = "Integer"

\* C8: a RepeatedSequence realizes its body once and replays it: the
\* replays carry the same pitch classes, so a random node of the body, be
\* it a direct child or inside a nested repeat, is drawn once only.
C8_RepeatedSequenceReplaysOneDraw ==
    (phase = "realized" /\ IsRepeatOf("RepeatedSequence")) =>
        LET r == Values[1].repeats.value
            n == Len(evaluated_values)
        IN  /\ n % r = 0
            /\ \A i \in 1 .. n, j \in 1 .. n :
                  (i - j) % (n \div r) = 0 => PitchClasses[i] = PitchClasses[j]

\* the items of a repeat body that are realized
Body(values) == SelectSeq(values, LAMBDA v : v.kind # "Whitespace")

\* the random nodes among the first i items of a body
RandomsUpTo(body, i) == Cardinality({j \in 1 .. i : body[j].kind = "RandomInteger"})

\* C9: a RepeatedListSequence whose body holds random nodes resolves the
\* body again for every repeat: it draws once per repeat and random node,
\* and every repeat yields Pitch events, the one of a random node carrying
\* the value drawn for that repeat.
C9_RepeatedListDrawsPerRepeat ==
    (/\ phase # "parsed"
     /\ IsRepeatOf("RepeatedListSequence")
     /\ RandomsUpTo(Body(Values[1].values), Len(Body(Values[1].values))) > 0) =>
        LET body == Body(Values[1].values)
            r == Values[1].repeats.value
            m == RandomsUpTo(body, Len(body))
        IN  /\ phase = "realized"
            /\ Len(drawn) = r * m
            /\ Len(evaluated_values) = r * Len(body)
            /\ \A k \in 1 .. r, c \in 1 .. Len(body) :
                  LET event == evaluated_values[(k - 1) * Len(body) + c]
                  IN  /\ event.kind = "Pitch"
                      /\ obj[event.id].note # None
                      /\ obj[event.id].pitch_class =
                            IF body[c].kind = "RandomInteger"
                            THEN drawn[(k - 1) * m + RandomsUpTo(body, c)]
                            ELSE Trees[tree].pitches[body[c].id][1]

RECURSIVE OnlyRepeats(_)
\* the items are pitches, lists and repeats with literal counts
OnlyRepeats(items) ==
    \A i \in DOMAIN items :
        \/ items[i].kind \in {"Pitch", "Whitespace"}
        \/ /\ items[i].kind = "ListSequence"
           /\ OnlyRepeats(items[i].values)
        \/ /\ items[i].kind \in {"RepeatedSequence", "RepeatedListSequence"}
           /\ items[i].repeats.kind = "Integer"
           /\ OnlyRepeats(items[i].values)

RECURSIVE Times(_, _)
\* n copies of a sequence
Times(seq, n) == IF n = 0 THEN <<>> ELSE seq \o Times(seq, n - 1)

RECURSIVE Expand(_)
\* the pitch classes of the items, every repeat expanded in place
Expand(items) ==
    IF items = <<>> THEN <<>>
    ELSE LET h == Head(items)
             first == CASE h.kind = "Pitch" -> <<Trees[tree].pitches[h.id][1]>>
                        [] h.kind = "ListSequence" -> Expand(h.values)
                        [] h.kind \in {"RepeatedSequence", "RepeatedListSequence"} ->
                              Times(Expand(h.values), h.repeats.value)
                        [] OTHER -> <<>>
         IN  first \o Expand(Tail(items))

\* C10: a repeat with count r over a body of k events yields r * k events,
\* nested repeats expanded in place, with the notes of the pitch classes in
\* the key and scale of the options, and the same on every cycle.
C10_RepeatsExpandInPlace ==
    (phase = "realized" /\ OnlyRepeats(Values)) =>
        /\ PitchClasses = Expand(Values)
        /\ Notes = [i \in DOMAIN evaluated_values |->
                       Some(note_from_pc(options["key"], PitchClasses[i], options["scale"],
                                         start_options[1]["octave"], 0)[1])]

----------------------------------------------------------------------------
(* Properties: subdivisions and measures *)

\* the durations of the realized events
Durations == [i \in DOMAIN evaluated_values |-> obj[evaluated_values[i].id].duration]

\* the octaves of the realized events
Octaves == [i \in DOMAIN evaluated_values |-> obj[evaluated_values[i].id].octave]

RECURSIVE LeafShares(_, _)
\* the leaves under the realized children of a subdivision, each with the
\* share of d it is due: d divided by the number of children at every level
LeafShares(children, d) ==
    LET share == d \div Len(children)
        Under(child) ==
            IF child.kind = "Subdivision"
            THEN LeafShares(sub[child.sid].evaluated_values, share)
            ELSE <<[id |-> child.id, duration |-> share]>>
        RECURSIVE Along(_)
        Along(i) == IF i > Len(children) THEN <<>> ELSE Under(children[i]) \o Along(i + 1)
    IN  Along(1)

C12_MeasureRestoresStartOptions ==
    phase = "realized" =>
        LET start == start_options[1]
            base == start["octave"]
        IN  /\ \A e \in DOMAIN evaluated_values : evaluated_values[e].kind = "Pitch"
            /\ \A i \in DOMAIN Values :
                  (/\ Values[i].kind = "Measure"
                   /\ i + 2 <= Len(Values)
                   /\ Values[i + 2].kind = "Pitch"
                   /\ Trees[tree].pitches[Values[i + 2].id][2] = Empty)
                  => /\ obj[Values[i + 2].id].octave = Some(base)
                     /\ obj[Values[i + 2].id].duration = Some(start["duration"])
                     /\ \E e \in DOMAIN evaluated_values :
                           evaluated_values[e].id = Values[i + 2].id
            /\ tree = 13 => /\ Octaves = <<Some(base + 1), Some(base - 1), Some(base + 1),
                                           Some(base), Some(base - 1)>>
                            /\ Len(evaluated_values) = 5
            /\ tree = 14 => Durations = <<Some(DUR_E), Some(DUR_Q), Some(DUR_H),
                                          Some(DUR_E), Some(DUR_Q)>>

\* "^ 1 | _ 3 | ^3 | 3 | _4" without supplied options, realized a second
\* time: the fourth bar is back at octave 0
C12_Witness ==
    /\ tree = 13
    /\ passes >= 2
    /\ last.op = "get"
    /\ start_options[1]["octave"] = 0
    /\ meas[3] > 0
    /\ Octaves = <<Some(1), Some(-1), Some(1), Some(0), Some(-1)>>

RECURSIVE KindsIn(_)
\* the kinds of the nodes of a list of items, nested ones included
KindsIn(items) ==
    IF items = <<>> THEN {}
    ELSE LET h == Head(items)
         IN  {h.kind}
             \cup (IF "values" \in DOMAIN h THEN KindsIn(h.values) ELSE {})
             \cup (IF "repeats" \in DOMAIN h THEN KindsIn(<<h.repeats>>) ELSE {})
             \cup (IF "value" \in DOMAIN h /\ h.kind = "VariableAssignment"
                   THEN KindsIn(<<h.value>>) ELSE {})
             \cup KindsIn(Tail(items))

\* the tree has no random, Cyclic or Variable node
Deterministic == KindsIn(Values) \cap {"RandomInteger", "Cyclic", "Variable"} = {}

\* C13: on a tree without random, Cyclic and Variable nodes an indexed
\* access never raises and, re-evaluating or not, leaves the realized pitch
\* classes, octaves, durations and notes as they were, so every pass
\* realizes what the first one did; the event returned for position i is
\* the one at i mod cycle_length of that list.
C13_ReevaluationRepeatsFirstPass ==
    [][(phase = "realized" /\ Deterministic /\ last'.op = "get")
       => /\ ~last'.raised
          /\ PitchClasses' = PitchClasses
          /\ Octaves' = Octaves
          /\ Durations' = Durations
          /\ Notes' = Notes
          /\ cycle_length' = cycle_length
          /\ last'.ret = <<evaluated_values'[(last'.index % cycle_length) + 1]>>]_vars

\* a tree without random, Cyclic and Variable nodes, whose events have a
\* local octave and follow modifications, has been realized again by an
\* access beyond its first cycle
C13_Witness ==
    /\ Deterministic
    /\ tree = 3
    /\ passes >= 2
    /\ last.op = "get"
    /\ last.index >= cycle_length
    /\ ~last.raised
    /\ Octaves[2] = Some(start_options[1]["octave"] - 1)

----------------------------------------------------------------------------
(* Properties: merging an event with the context (items.py) *)

\* C14: merged with a context of octave a, an event with a local octave o
\* ends with octave a + o, an event with an octave_change c ends with
\* octave c for every integer c, and an event with neither takes the octave
\* a; modifier, key, scale and duration stay as they are when the event has
\* them, and come from the context when it has not.  (The first and third
\* case are read for an event that has no octave yet.)
C14_OctaveMerge ==
    last.op = "update_options" =>
        LET lo == last.event.local_options
            a == last.options["octave"]
        IN  /\ ("octave" \in DOMAIN lo /\ last.event.octave = None)
                  => last.ret.octave = Some(a + lo["octave"])
            /\ "octave_change" \in DOMAIN lo
                  => last.ret.octave = Some(lo["octave_change"])
            /\ ({"octave", "octave_change"} \cap DOMAIN lo = {} /\ last.event.octave = None)
                  => last.ret.octave = Some(a)
            /\ \A f \in {"modifier", "key", "scale", "duration"} :
                  /\ last.event[f] # None => last.ret[f] = last.event[f]
                  /\ (last.event[f] = None /\ f \in DOMAIN last.options /\ f \notin DOMAIN lo)
                        => last.ret[f] = Some(last.options[f])

----------------------------------------------------------------------------
(* Properties: resolving notes (scale.py) *)

IonianNotes == <<45, 47, 48, 50, 52, 53, 55, 57, 59, 60, 62, 64, 65, 67, 69, 71, 72, 74, 76>>

----------------------------------------------------------------------------
(* Properties: Euclidean rhythms (common.py) *)

\* the number of onsets of a pattern
Onsets(pattern) == Cardinality({i \in DOMAIN pattern : pattern[i]})

\* C17: with pulses >= length the pattern has exactly `length` entries,
\* all of them True, whatever the rotation.
C17_FullPatternHasLengthOnsets ==
    (last.op = "euclidian_rhythm" /\ last.pulses >= last.length)
    => last.ret = [i \in 1 .. last.length |-> TRUE]

\* C18: with 0 <= pulses < length the pattern has exactly `length` entries,
\* exactly `pulses` of them True, for every rotation: none, within the
\* pattern, beyond its length, and negative.
C18_PatternHasPulsesOnsets ==
    (/\ last.op = "euclidian_rhythm"
     /\ 0 <= last.pulses
     /\ last.pulses < last.length)
    => /\ Len(last.ret) = last.length
       /\ Onsets(last.ret) = last.pulses
       /\ \A i \in DOMAIN last.ret : last.ret[i] \in BOOLEAN

\* three onsets over eight steps, rotated by three to the left
C18_Witness ==
    /\ last.op = "euclidian_rhythm"
    /\ last.pulses = 3
    /\ last.length = 8
    /\ last.rot = -3
    /\ last.ret = <<TRUE, FALSE, FALSE, TRUE, FALSE, TRUE, FALSE, FALSE>>

----------------------------------------------------------------------------
(* Properties: collect (root.py) *)

\* C19: collect(n, keys) with several keys returns one list of n values per
\* key, in key order, and for every i < n the i-th entries of the lists are
\* attributes of one event: one of the events read at position i has, for
\* every key, the value the list of that key holds at i.
C19_CollectReadsOneEventPerPosition ==
    (last.op = "collect" /\ ~last.raised /\ Len(last.keys) > 1) =>
        LET n == IF last.num = None THEN cycle_length ELSE last.num[1]
        IN  /\ Len(last.ret) = Len(last.keys)
            /\ \A k \in DOMAIN last.keys : Len(last.ret[k]) = n
            /\ \A i \in 1 .. n :
                  \E j \in DOMAIN last.keys :
                     \A k \in DOMAIN last.keys :
                        last.ret[k][i].value = last.ret[j][i].event[last.keys[k]]

----------------------------------------------------------------------------
(* Properties: beats (items.py, sequences.py) *)

\* the beats of the realized events
Beats == [i \in DOMAIN evaluated_values |-> obj[evaluated_values[i].id].beat]

\* C20: after every evaluation pass, the first one included, every realized
\* event has a duration and the beat 4 * duration, the events whose duration
\* the duration pass of a subdivision has assigned included.
C20_BeatIsFourTimesDuration ==
    phase = "realized" =>
        \A i \in DOMAIN evaluated_values :
            /\ Durations[i] # None
            /\ Beats[i] = Some(4 * Durations[i][1])

----------------------------------------------------------------------------
(* Properties: chords (items.py) *)

\* C21: after every evaluation pass a Chord, inverted or not, has its
\* pitch_classes in non-decreasing order of their notes, and its pitches,
\* notes, freqs, octaves, durations and beats have the size of the chord,
\* entry i being read from pitch_classes[i].
C21_ChordListsFollowSortedPitches ==
    last.op = "update_item" =>
        LET chord == last.chord
            pcs == chord.pitch_classes
        IN  /\ \A i \in DOMAIN pcs : pcs[i].note # None
            /\ \A i \in 1 .. Len(pcs) - 1 : pcs[i].note[1] <= pcs[i + 1].note[1]
            /\ \A f \in {"pitches", "notes", "freqs", "octaves", "durations", "beats"} :
                  chord[f] # None /\ Len(chord[f][1]) = Len(pcs)
            /\ \A i \in DOMAIN pcs :
                  /\ chord.pitches[1][i] = pcs[i].pitch_class
                  /\ chord.notes[1][i] = pcs[i].note
                  /\ chord.freqs[1][i] = midi_to_freq(pcs[i].note[1])
                  /\ chord.octaves[1][i] = pcs[i].octave
                  /\ chord.durations[1][i] = pcs[i].duration
                  /\ chord.beats[1][i] = pcs[i].beat

\* the chord 0 2 4 inverted downwards once, in its second pass: the voice
\* 4 is an octave down and first
C21_Witness ==
    /\ last.op = "update_item"
    /\ last.passes = 2
    /\ last.chord.inversions = Some(-1)
    /\ last.options["octave"] = 0
    /\ last.chord.pitches = Some(<<4, 0, 2>>)
    /\ last.chord.notes = Some(<<Some(55), Some(60), Some(64)>>)

\* the Cyclic counters a pass of the tree has advanced by evaluating the
\* value of a pre-evaluated assignment: one value per Cyclic and pass
AssignmentAdvances(c) ==
    IF \E i \in DOMAIN Values :
          /\ Values[i].kind = "VariableAssignment"
          /\ Values[i].pre_eval
          /\ c \in {n.cid : n \in CyclicsIn(<<Values[i].value>>)}
    THEN passes
    ELSE 0

\* the positions of the realized events the uses of a variable yielded, for
\* the trees whose variable holds one Cyclic and is used twice
UsesOfA ==
    CASE tree = 15 -> <<<<1>>, <<2>>>>
      [] tree = 16 -> <<<<1, 2>>, <<3, 4>>>>
      [] OTHER -> <<<<>>, <<>>>>

\* C22: resolving a Variable evaluates a deep copy of the stored value: the
\* counter of a Cyclic of the stored value is advanced by no use (it stands
\* where the evaluations of the assignment itself left it), and the two uses
\* of the variable in a pass yield the same pitch classes, from different
\* objects, in every pass.
C22_VariableUsesCopy ==
    (phase = "realized" /\ tree \in VariableTrees) =>
        /\ \A c \in DOMAIN cyc : c = 1 => cyc[c] = AssignmentAdvances(c)
        /\ Len(evaluated_values) >= Len(UsesOfA[1]) + Len(UsesOfA[2])
        /\ \A k \in DOMAIN UsesOfA[1] :
              /\ PitchClasses[UsesOfA[1][k]] = PitchClasses[UsesOfA[2][k]]
              /\ evaluated_values[UsesOfA[1][k]].id # evaluated_values[UsesOfA[2][k]].id
        /\ tree = 15 => PitchClasses = <<1, 1, 5>>

C22_Witness ==
    /\ tree = 15
    /\ phase = "realized"
    /\ passes = MaxPasses
    /\ last.op = "get"
    /\ cyc[1] = 0
    /\ PitchClasses = <<1, 1, 5>>
    /\ "A" \in DOMAIN options
    /\ options["A"].kind = "Cyclic"

RECURSIVE Flat(_)
\* the nodes of a sequence in the order they are evaluated, the nodes of
\* its list sequences in their place
Flat(items) ==
    IF items = <<>> THEN <<>>
    ELSE (IF Head(items).kind = "ListSequence" THEN Flat(Head(items).values)
          ELSE <<Head(items)>>) \o Flat(Tail(items))

\* the tree is made of pitches and modifications, in plain and list sequences
PlainTree ==
    \A i \in DOMAIN Flat(Values) :
        Flat(Values)[i].kind \in {"Pitch", "Whitespace", "OctaveAdd", "OctaveChange",
                                  "DurationChange"}

RECURSIVE AmbientAt(_, _, _, _)
\* the ambient value of key when node k of items is evaluated: the start
\* value, replaced or added to by the modifications before k
AmbientAt(items, k, key, start) ==
    IF k = 1 THEN start
    ELSE LET before == AmbientAt(items, k - 1, key, start)
             item == items[k - 1]
         IN  IF IsModification(item) /\ item.key = key
             THEN IF item.kind = "OctaveAdd" THEN before + item.value ELSE item.value
             ELSE before

\* the k-th event of a plain tree is due to the node at position i
EventOf(items, i) == Cardinality({j \in 1 .. i : items[j].kind = "Pitch"})

\* C23: in a tree of plain and list sequences a Modification yields no event
\* (the events are the pitches of the tree, in order) and every event has the
\* octave and duration of the context the modifications before it have made:
\* DurationChange and OctaveChange replace the ambient value, OctaveAdd adds
\* to the ambient octave, and creates it in options that have none.
C23_ModificationAffectsLaterNodes ==
    (phase = "realized" /\ PlainTree) =>
        LET items == Flat(Values)
            start == start_options[1]
        IN  /\ Len(evaluated_values) = EventOf(items, Len(items))
            /\ \A i \in DOMAIN items :
                  items[i].kind = "Pitch" =>
                      LET k == EventOf(items, i)
                          p == obj[evaluated_values[k].id]
                      IN  /\ evaluated_values[k] = items[i]
                          /\ p.octave = Some(AmbientAt(items, i, "octave", start["octave"])
                                             + GetInt(p.local_options, "octave"))
                          /\ p.duration = Some(IF "duration" \in DOMAIN p.local_options
                                               THEN p.local_options["duration"]
                                               ELSE AmbientAt(items, i, "duration",
                                                              start["duration"]))
            /\ \A v \in OctaveRange :
                  update_modifications(OctaveAdd(v), [opt |-> Empty]).opt
                      = Put(Empty, "octave", v)

C23_Witness ==
    /\ tree = 21
    /\ phase = "realized"
    /\ passes >= 2
    /\ start_options[1]["octave"] = 0
    /\ Octaves = <<Some(0), Some(1), Some(0), Some(1)>>
    /\ Durations = <<Some(DUR_Q), Some(DUR_Q), Some(DUR_Q), Some(DUR_E)>>

\* C24: a ListOperation of a left operand of m pitches and a right operand
\* of n pitches, joined by an arithmetic operator, evaluates to m * n
\* pitches, the elements of the right operand the outer loop, and the pitch
\* for the pair (l, r) has the pitch class op(l, r), for subtraction and
\* modulo too.
C24_ListOperationAppliesLeftToRight ==
    (/\ last.op = "list_operation"
     /\ Len(last.operators) = 1
     /\ \A i \in DOMAIN last.values[1], j \in DOMAIN last.values[2] :
           operation(last.operators[1], last.values[1][i], last.values[2][j]) # None)
    => LET left == last.values[1]
           right == last.values[2]
           m == Len(left)
           n == Len(right)
       IN  /\ ~last.ret.raised
           /\ Len(last.ret.values) = m * n
           /\ \A i \in 1 .. m, j \in 1 .. n :
                 last.ret.values[(j - 1) * m + i]
                     = operation(last.operators[1], left[i], right[j])[1]

\* the pattern a Euclid node of the given pulses, length and rotation is
\* said to walk: every step an onset when pulses >= length
SaidPattern(euclid) ==
    IF euclid.pulses >= euclid.length THEN [i \in 1 .. euclid.length |-> TRUE]
    ELSE euclidian_rhythm(euclid.pulses, euclid.length, euclid.rotate)

\* C25: evaluating a Euclid node raises nothing and fills evaluated_values
\* with length entries: the j-th onset step takes onset[j mod |onset|], the
\* j-th other step offset[j mod |offset|], or a Rest of the ambient duration
\* when there is no offset list; with pulses >= length every step is an
\* onset.
C25_EuclidFillsLengthSteps ==
    last.op = "euclid" =>
        LET euclid == last.euclid
            pattern == SaidPattern(euclid)
            onset == without_whitespace(euclid.onset)
        IN  /\ ~last.ret.raised
            /\ Len(last.ret.evaluated_values) = euclid.length
            /\ \A i \in 1 .. euclid.length :
                  last.ret.evaluated_values[i]
                      = IF pattern[i]
                        THEN onset[(taken(pattern, i, TRUE) % Len(onset)) + 1]
                        ELSE IF euclid.offset = None THEN Rest(last.options["duration"])
                             ELSE without_whitespace(euclid.offset[1])
                                      [(taken(pattern, i, FALSE)
                                        % Len(without_whitespace(euclid.offset[1]))) + 1]

\* the residues (pulses * t) mod length for t = -1 .. length - 2
Residues(pulses, length) == [i \in 1 .. length |-> (pulses * (i - 2)) % length]

\* the onsets before rotation: a step is an onset when the residue descends
\* to the next one, cyclically
Descents(pulses, length) ==
    [i \in 1 .. length |->
        Residues(pulses, length)[i] > Residues(pulses, length)[(i % length) + 1]]

\* C26: for 0 <= pulses < length, euclidian_rhythm(pulses, length, rot) is
\* the array of the descents of the residues rotated right by rot: entry i
\* of the unrotated array is at position (i + rot) mod length, for every
\* integer rot; euclidian_rhythm(3, 8, 0) is [T,F,F,T,F,F,T,F].
C26_PatternRotatedByAnyInteger ==
    (last.op = "euclidian_rhythm" /\ last.pulses < last.length) =>
        /\ Len(last.ret) = last.length
        /\ \A i \in 0 .. last.length - 1 :
              last.ret[((i + last.rot) % last.length) + 1]
                  = Descents(last.pulses, last.length)[i + 1]
        /\ (last.pulses = 3 /\ last.length = 8 /\ last.rot = 0)
              => last.ret = <<TRUE, FALSE, FALSE, TRUE, FALSE, FALSE, TRUE, FALSE>>

\* the value of an optional field, 0 when it is absent
OrZero(field) == IF field = None THEN 0 ELSE field[1]

\* the note resolve_note gives for the current fields of the Pitch object p
NoteOfFields(p) ==
    note_from_pc(p.key[1], p.pitch_class, p.scale[1], OrZero(p.octave), OrZero(p.modifier))[1]

\* C27: a pass over a tree with RandomInteger nodes, key and scale in the
\* options, raises nothing: it draws, and every event it yields is a
\* resolved Pitch, with the ambient octave (the nodes have no local one) and
\* the note of its key, pitch class, scale, octave and modifier; the pitch
\* classes of the events the random nodes yielded are the values drawn.
C27_RandomIntegerYieldsResolvedPitch ==
    (phase # "parsed" /\ "RandomInteger" \in KindsIn(Values)) =>
        /\ phase = "realized"
        /\ drawn # <<>>
        /\ \A i \in DOMAIN evaluated_values :
              /\ evaluated_values[i].kind = "Pitch"
              /\ obj[evaluated_values[i].id].note
                    = Some(NoteOfFields(obj[evaluated_values[i].id]))
        /\ \A k \in DOMAIN drawn :
              \E i \in DOMAIN evaluated_values :
                  /\ evaluated_values[i].id > NTree
                  /\ PitchClasses[i] = drawn[k]
                  /\ Octaves[i] = Some(start_options[1]["octave"])

\* C28: read in ascending order, z[0] is the first element of the first
\* realization, and z[i + 1] is the element after z[i] in the realized list,
\* without a pass, while there is one; after the last element the tree is
\* re-evaluated, once, and z[i + 1] is the first element of the new list,
\* whatever the lengths of the two lists.
C28_AscendingReadsEveryElementOnce ==
    [][(phase = "realized" /\ last'.op = "get")
       => /\ ~last'.raised
          /\ IF last.op = "init"
             THEN /\ passes' = passes
                  /\ last'.ret = <<evaluated_values[1]>>
             ELSE IF loop_i + 1 < Len(evaluated_values)
                  THEN /\ passes' = passes
                       /\ last'.ret = <<evaluated_values[loop_i + 2]>>
                  ELSE /\ passes' = passes + 1
                       /\ last'.ret = <<evaluated_values'[1]>>]_vars

\* C29: after every evaluation pass every realized Pitch that has a note
\* has the note of its own current key, pitch class, scale, octave and
\* modifier, a Pitch with a local octave that a later pass reaches under
\* another ambient octave included.
C29_NoteFollowsCurrentFields ==
    phase = "realized" =>
        \A i \in DOMAIN evaluated_values :
            (/\ evaluated_values[i].kind = "Pitch"
             /\ obj[evaluated_values[i].id].note # None)
            => obj[evaluated_values[i].id].note
                  = Some(NoteOfFields(obj[evaluated_values[i].id]))

\* a Variable is used after a Measure with no assignment of its name in
\* between
UseAfterMeasure ==
    \E i \in DOMAIN Values, j \in DOMAIN Values :
        /\ i < j
        /\ Values[i].kind = "Measure"
        /\ Values[j].kind = "Variable"
        /\ \A k \in i + 1 .. j - 1 :
              ~(Values[k].kind = "VariableAssignment" /\ Values[k].name = Values[j].name)

\* C30: a name bound by a VariableAssignment is not bound after a Measure:
\* the options a pass leaves behind a Measure have the keys of start_options,
\* the measure counter and start_options, and a pass that uses the variable
\* after the Measure raises instead of yielding events.
C30_MeasureUnbindsVariables ==
    (/\ phase # "parsed"
     /\ tree \in VariableTrees
     /\ \E i \in DOMAIN Values : Values[i].kind = "Measure") =>
        IF UseAfterMeasure
        THEN phase = "failed" /\ last.raised /\ evaluated_values = <<>>
        ELSE /\ phase = "realized"
             /\ DOMAIN options = DOMAIN start_options[1] \cup {"measure", "start_options"}
             /\ \A i \in DOMAIN Values :
                   Values[i].kind = "VariableAssignment" => Values[i].name \notin DOMAIN options

C30_Witness ==
    /\ tree = 17
    /\ UseAfterMeasure
    /\ phase = "failed"
    /\ last.op = "init"
    /\ last.raised

====
